---- MODULE Spec2Model ----
(***************************************************************************)
(* Model of the dispensary scraper: the per-category orchestrator          *)
(* (agent.scrape_single_category), the parallel category coordinator       *)
(* (agent.scrape_all_categories), the top-level workflow                   *)
(* (agent.run_complete_scraping_workflow), the session model               *)
(* (models.ScrapingSession) and the bulk loader (SnowflakeClient).         *)
(*                                                                         *)
(* Strings built with f-strings are sequences of tokens, so that "the      *)
(* message contains the exception text" is a property of the value.        *)
(* Optional values are records [present, ...].                             *)
(***************************************************************************)
EXTENDS Integers, Sequences, FiniteSets, TLC

(* ---------------------------------------------------------------------- *)
(* Bounds                                                                  *)
(* ---------------------------------------------------------------------- *)
\* longest store list the locator returns to a direct scrape_single_category call
MaxStores == 3
\* largest batch one store returns to a direct scrape_single_category call
MaxBatch == 2
\* longest store list the locator returns inside a workflow run
WfMaxStores == 2
\* most category groups passed to one by-category load
MaxGroups == 2
\* most product links on one category page
MaxLinks == 3
\* most store anchors on the dispensaries page
MaxAnchors == 3
\* price elements the locator of extract_price_from_card matches in one card
MaxPriceEls == 5
\* loop iterations of load_all that are explored
MaxWalkSteps == 3
\* add_result calls a caller makes on one session
MaxAdds == 3
\* batch sizes of a store inside a workflow run (a direct call covers 0..MaxBatch)
WfBatchSizes == {1}

(* ---------------------------------------------------------------------- *)
(* Values                                                                  *)
(* ---------------------------------------------------------------------- *)
DefaultCategories == <<"Whole Flower", "Pre-Rolls", "Ground & Shake">>

Range(s) == {s[i] : i \in DOMAIN s}

\* the smaller of two numbers
Min(a, b) == IF a < b THEN a ELSE b

CategoryNames == Range(DefaultCategories)

\* a category name the fixed set does not contain
UnknownCategory == "Edibles"

\* texts of the exceptions the page-rendering capability raises
LocatorErrors == {"Timeout 30000ms exceeded"}
ScrapeErrors == {"Network timeout"}
\* texts of exceptions escaping the body of the workflow's try block
WorkflowErrors == {"Unexpected workflow error"}
\* texts of the errors the data store reports
InsertErrors == {"Persistent database error"}

NoneStr == [present |-> FALSE, text |-> <<>>]
SomeStr(t) == [present |-> TRUE, text |-> t]
\* Python truthiness of an Optional[str]
Truthy(o) == o.present /\ o.text # <<>>
\* str(e) of an exception raised with text m
StrOfException(m) == <<m>>
\* "needle in haystack" on token strings
Contains(text, m) == \E i \in DOMAIN text : text[i] = m

NoneInt == [present |-> FALSE, val |-> 0]
SomeInt(n) == [present |-> TRUE, val |-> n]

EmptyMap == [x \in {} |-> 0]
Put(f, k, v) == [x \in (DOMAIN f) \cup {k} |-> IF x = k THEN v ELSE f[x]]

\* the ProductData records a store returns for a category
Batch(store, category, n) ==
    [k \in 1..n |-> [store |-> store, subcategory |-> category, name |-> k]]

\* the store names of the directory page, in document order
Directory(n) == [i \in 1..n |-> i]

(* ---------------------------------------------------------------------- *)
(* models.ScrapingResult and the results scrape_single_category builds     *)
(* ---------------------------------------------------------------------- *)
ScrapingResult(category, products, store_count, total_products, success, error_message) ==
    [category |-> category, products |-> products, store_count |-> store_count,
     total_products |-> total_products, success |-> success,
     error_message |-> error_message]

NoResult == ScrapingResult("", <<>>, 0, 0, FALSE, NoneStr)

\* "No products found for {category_name}"
NoProductsMessage(category) == <<"No products found for ", category>>

FinalResult_noMessage(category, all_products, successful_stores) ==
    ScrapingResult(category, all_products, successful_stores, Len(all_products),
                   Len(all_products) > 0, NoneStr)

\* agent.py 133-144: the result of a category whose store loop ran to its end
FinalResult(category, all_products, successful_stores) ==
    LET result == ScrapingResult(category, all_products, successful_stores,
                                 Len(all_products), Len(all_products) > 0, NoneStr)
    IN IF ~result.success
       THEN [result EXCEPT !.error_message = SomeStr(NoProductsMessage(category))]
       ELSE result

\* agent.py 153-160 and 220-225: the result of a category that raised
FailureResult(category, text) ==
    ScrapingResult(category, <<>>, 0, 0, FALSE, SomeStr(text))

\* agent.py 108-109: stores[:max_stores] when max_stores is truthy
TruncateStores(stores, cap) ==
    IF cap.present /\ cap.val # 0
    THEN SubSeq(stores, 1, IF cap.val < Len(stores) THEN cap.val ELSE Len(stores))
    ELSE stores

(* ---------------------------------------------------------------------- *)
(* models.ScrapingSession                                                  *)
(* ---------------------------------------------------------------------- *)
NewSession ==
    [results |-> EmptyMap, total_products |-> 0, total_stores |-> 0,
     success |-> TRUE, end_time |-> FALSE, errors |-> <<>>]

add_result_noErrors(session, category, result) ==
    LET s1 == [session EXCEPT !.results = Put(@, category, result),
                              !.total_products = @ + result.total_products]
    IN IF ~result.success THEN [s1 EXCEPT !.success = FALSE] ELSE s1

add_result_lastWins(session, category, result) ==
    LET s1 == [session EXCEPT !.results = Put(@, category, result),
                              !.total_products = @ + result.total_products,
                              !.success = result.success]
    IN IF ~result.success /\ Truthy(result.error_message)
       THEN [s1 EXCEPT !.errors = Append(@, <<category, ": ">> \o result.error_message.text)]
       ELSE s1

\* models.py 148-155
add_result(session, category, result) ==
    LET s1 == [session EXCEPT !.results = Put(@, category, result),
                              !.total_products = @ + result.total_products]
    IN IF ~result.success
       THEN [s1 EXCEPT !.success = FALSE,
                       !.errors = IF Truthy(result.error_message)
                                  THEN Append(@, <<category, ": ">> \o result.error_message.text)
                                  ELSE @]
       ELSE s1

AllStores(session) ==
    UNION {{session.results[c].products[i].store : i \in DOMAIN session.results[c].products}
           : c \in DOMAIN session.results}

finalize_sumStoreCounts(session) ==
    LET count(c) == IF c \in DOMAIN session.results THEN session.results[c].store_count ELSE 0
    IN [session EXCEPT !.end_time = TRUE,
                       !.total_stores = count(DefaultCategories[1]) + count(DefaultCategories[2])
                                          + count(DefaultCategories[3])]

\* models.py 157-168
finalize(session) ==
    [session EXCEPT !.end_time = TRUE, !.total_stores = Cardinality(AllStores(session))]

(* ---------------------------------------------------------------------- *)
(* State                                                                   *)
(* ---------------------------------------------------------------------- *)
VARIABLES
    wpc,                  \* position of run_complete_scraping_workflow ("direct": no workflow, the orchestrator is called directly)
    directory,            \* the store list extract_florida_stores_tool returns in this run
    max_stores,           \* Optional[int] store cap
    categories_to_scrape, \* Optional[List[str]] category subset
    launched,             \* tasks: the categories whose coroutine was created, in order
    pc,                   \* position of each scrape_single_category task
    stores,               \* its (truncated) store list
    idx,                  \* index of the store its loop is at
    all_products,         \* its all_products list
    successful_stores,    \* its successful_stores counter
    task_result,          \* the ScrapingResult it returned
    locate_outcome,       \* history: what its store-locator call did
    log,                  \* history: what each of its per-store scrapes did
    scraping_results,     \* the mapping scrape_all_categories returned
    session,              \* the ScrapingSession
    store_in_database,    \* the workflow's store_in_database argument
    client,               \* ctx.deps.snowflake_client: "none", "real", "raising"; "unread" until read
    database_results,     \* the mapping store_results_in_snowflake returned
    outcome,              \* how the workflow call ended: "running", "returned", "raised"
    finalize_calls,       \* history: how many times session.finalize() was called
    insert_calls,         \* history: how many times the workflow called insert_products_by_category
    lpc,                  \* position of the SnowflakeClient call in progress
    lcall,                \* the client method the caller invoked
    connection,           \* self._connection: "none", "open", "closed" (is_closed())
    attempt,              \* the retry loop's attempt variable
    groups,               \* products_by_category, in iteration order
    gi,                   \* index of the group the by-category loop is at
    cur_products,         \* products argument of the running insert_products
    cur_table,            \* table_name argument of the running insert_products
    insert_results,       \* results mapping of insert_products_by_category
    last_result,          \* what the last insert_products returned
    connect_outcome,      \* how the last connect ended
    trace,                \* history: data-store operations and sleeps of the running insert_products or connect
    cur_key,              \* history: the group the running insert_products serves ("direct" for a direct call)
    hist_of,              \* history: per group, the outcome of each insert attempt made for it
    sleeps_of,            \* history: per group, the backoff sleeps made for it, in seconds
    spc,                  \* position of the running tools.scrape_category pass
    page_store,           \* its store_name argument
    page_category,        \* its subcategory argument
    name_links,           \* the product links of the category page, in document order
    link_i,               \* index of the link its loop is at
    rows,                 \* its rows list
    seen,                 \* its seen set of deduplication keys
    page_result,          \* the ProductData list scrape_store_category_tool returned
    dpc,                  \* position of the tools.extract_fl_store_links call
    anchors,              \* the anchors of the dispensaries page, in document order
    unreadable,           \* index of the anchor whose href or text read raises, 0 when every read succeeds
    store_links,          \* the list the call returned
    cpc,                  \* position of the assembly of one product link in scrape_category
    card_href,            \* the link's href (empty for None or "")
    card_text,            \* the inner text of the link's card
    price_els,            \* the texts of the card's price elements, as matched by the locator
    els_failed,           \* whether reading the price elements raised
    card_price,           \* what extract_price_from_card returned
    price,                \* the assembly's local price
    brand,                \* the assembly's local brand
    ppc,                  \* position of the running detail-page extractor
    open_pages,           \* number of detail pages opened by the extractors and not closed
    pdp_body,             \* the body text extract_price_from_pdp read
    pdp_price,            \* what extract_price_from_pdp returned
    card_row,             \* the row appended for the link
    card_brand,           \* history: what extract_brand_from_card returned
    fetches,              \* history: the detail-page extractors the assembly called, in order
    fpc,                  \* position of a call of a pure extractor function
    fn,                   \* the function called
    arg_size,             \* argument of grams_from_size
    arg_href,             \* href argument of looks_like_florida
    arg_text,             \* text argument of looks_like_florida
    ret_grams,            \* what grams_from_size returned
    ret_florida,          \* what looks_like_florida returned
    arg_row,              \* the keyword arguments of ProductData(**row)
    ret_product,          \* the ProductData the constructor returned
    rpc,                  \* position of run_dispensary_scraping
    deps_client,          \* deps.snowflake_client as create_dependencies built it: "unset", "none", "real"
    browser,              \* the Playwright browser and context: "none", "open", "closed"
    kpc,                  \* position of load_all and of the scrape_category call around it
    shown_steps,          \* the Load More control is present and visible in the steps up to this one
    shown_forever,        \* whether it is present and visible in every step
    ending,               \* what the control is in the first step after shown_steps: "absent", "hidden"
    fail_call,            \* the call that raises in step fail_step: "none", "click", "wait"
    fail_step,            \* the step in which it raises
    first_callable,       \* whether the locator's first is callable (tools.py 115) or an attribute (tools.py 192)
    step,                 \* number of the loop iteration load_all is in
    loaded,               \* number of clicks that expanded the page
    wtrace,               \* history: the page operations load_all awaited, in order
    add_calls             \* history: the add_result calls a caller made on the session, as categories

taskVars == <<pc, stores, idx, all_products, successful_stores, task_result,
              locate_outcome, log>>
inputVars == <<directory, max_stores, categories_to_scrape, launched>>
wfVars == <<wpc, scraping_results, session, store_in_database, client,
            database_results, outcome, finalize_calls, insert_calls>>
loaderVars == <<lpc, lcall, connection, attempt, groups, gi, cur_products, cur_table,
                insert_results, last_result, connect_outcome, trace, cur_key,
                hist_of, sleeps_of>>
pageVars == <<spc, page_store, page_category, name_links, link_i, rows, seen,
              page_result>>
locatorVars == <<dpc, anchors, unreadable, store_links>>
cardVars == <<cpc, card_href, card_text, price_els, els_failed, card_price, price, brand,
              ppc, open_pages, pdp_body, pdp_price, card_row, card_brand, fetches>>
fnVars == <<fpc, fn, arg_size, arg_href, arg_text, ret_grams, ret_florida, arg_row,
           ret_product>>
runVars == <<rpc, deps_client, browser>>
walkVars == <<kpc, shown_steps, shown_forever, ending, fail_call, fail_step, first_callable,
             step, loaded, wtrace>>
sessVars == <<add_calls>>
vars == <<inputVars, taskVars, wfVars, loaderVars, pageVars, locatorVars, cardVars,
          fnVars, runVars, walkVars, sessVars>>

(* ---------------------------------------------------------------------- *)
(* agent.scrape_single_category, one task per category                     *)
(* ---------------------------------------------------------------------- *)
\* the sizes of the batch one awaited scrape_store_category_tool call returns
BatchSizes == IF wpc = "direct" THEN 0..MaxBatch ELSE WfBatchSizes

IdleTasks ==
    /\ pc = [c \in CategoryNames |-> "idle"]
    /\ stores = [c \in CategoryNames |-> <<>>]
    /\ idx = [c \in CategoryNames |-> 0]
    /\ all_products = [c \in CategoryNames |-> <<>>]
    /\ successful_stores = [c \in CategoryNames |-> 0]
    /\ task_result = [c \in CategoryNames |-> NoResult]
    /\ locate_outcome = [c \in CategoryNames |-> "pending"]
    /\ log = [c \in CategoryNames |-> <<>>]

LocateRaises_cancelSiblings(c) ==
    /\ pc[c] = "locate"
    /\ \E m \in LocatorErrors :
          task_result' = [d \in CategoryNames |->
                            IF pc[d] = "done" THEN task_result[d]
                            ELSE FailureResult(d, StrOfException(m))]
    /\ locate_outcome' = [locate_outcome EXCEPT ![c] = "raised"]
    /\ pc' = [d \in CategoryNames |-> IF pc[d] = "idle" THEN "idle" ELSE "done"]
    /\ UNCHANGED <<stores, idx, all_products, successful_stores, log>>
    /\ UNCHANGED <<inputVars, wfVars, loaderVars, pageVars, locatorVars, cardVars, fnVars, runVars, walkVars, sessVars>>

\* agent.py 105-107, 153-160: the store locator raises, the outer handler returns a failed result
LocateRaises(c) ==
    /\ pc[c] = "locate"
    /\ \E m \in LocatorErrors :
          task_result' = [task_result EXCEPT ![c] = FailureResult(c, StrOfException(m))]
    /\ locate_outcome' = [locate_outcome EXCEPT ![c] = "raised"]
    /\ pc' = [pc EXCEPT ![c] = "done"]
    /\ UNCHANGED <<stores, idx, all_products, successful_stores, log>>
    /\ UNCHANGED <<inputVars, wfVars, loaderVars, pageVars, locatorVars, cardVars, fnVars, runVars, walkVars, sessVars>>

\* agent.py 107-114: the store locator returns; with no store to visit the task runs on to its return
LocateReturns(c) ==
    /\ pc[c] = "locate"
    /\ LET truncated == TruncateStores(directory, max_stores)
       IN /\ stores' = [stores EXCEPT ![c] = truncated]
          /\ IF truncated = <<>>
             THEN /\ task_result' = [task_result EXCEPT ![c] = FinalResult(c, <<>>, 0)]
                  /\ pc' = [pc EXCEPT ![c] = "done"]
                  /\ idx' = idx
             ELSE /\ pc' = [pc EXCEPT ![c] = "stores"]
                  /\ idx' = [idx EXCEPT ![c] = 1]
                  /\ task_result' = task_result
    /\ locate_outcome' = [locate_outcome EXCEPT ![c] = "returned"]
    /\ UNCHANGED <<all_products, successful_stores, log>>
    /\ UNCHANGED <<inputVars, wfVars, loaderVars, pageVars, locatorVars, cardVars, fnVars, runVars, walkVars, sessVars>>

NextStore_skipAhead(c, products, count) ==
    IF idx[c] >= Len(stores[c]) - 1
    THEN /\ task_result' = [task_result EXCEPT ![c] = FinalResult(c, products, count)]
         /\ pc' = [pc EXCEPT ![c] = "done"]
         /\ idx' = idx
    ELSE /\ idx' = [idx EXCEPT ![c] = @ + 2]
         /\ UNCHANGED <<task_result, pc>>

\* agent.py 117, 130-151: the loop moves to the next store, or ends and the result is built
NextStore(c, products, count) ==
    IF idx[c] = Len(stores[c])
    THEN /\ task_result' = [task_result EXCEPT ![c] = FinalResult(c, products, count)]
         /\ pc' = [pc EXCEPT ![c] = "done"]
         /\ idx' = idx
    ELSE /\ idx' = [idx EXCEPT ![c] = @ + 1]
         /\ UNCHANGED <<task_result, pc>>

\* tools.py 438-446: the store page's goto (or a call after it) raises and
\* scrape_store_category_tool returns []; a list that holds products was scraped
NavOutcomes(n) == IF n = 0 THEN {FALSE, TRUE} ELSE {FALSE}

\* agent.py 119-124: the awaited per-store scrape returns a batch
StoreReturns(c) ==
    /\ pc[c] = "stores"
    /\ \E n \in BatchSizes : \E nav \in NavOutcomes(n) :
          LET products == Batch(stores[c][idx[c]], c, n)
          IN /\ all_products' = [all_products EXCEPT ![c] = @ \o products]
             /\ successful_stores' = [successful_stores EXCEPT ![c] = @ + 1]
             /\ log' = [log EXCEPT ![c] = Append(@, [store |-> stores[c][idx[c]],
                                                     raised |-> FALSE, text |-> "",
                                                     batch |-> products,
                                                     nav_failed |-> nav])]
             /\ NextStore(c, all_products[c] \o products, successful_stores[c] + 1)
    /\ UNCHANGED <<stores, locate_outcome>>
    /\ UNCHANGED <<inputVars, wfVars, loaderVars, pageVars, locatorVars, cardVars, fnVars, runVars, walkVars, sessVars>>

StoreRaises_abort(c) ==
    /\ pc[c] = "stores"
    /\ \E m \in ScrapeErrors :
          /\ log' = [log EXCEPT ![c] = Append(@, [store |-> stores[c][idx[c]],
                                                  raised |-> TRUE, text |-> m,
                                                  batch |-> <<>>, nav_failed |-> FALSE])]
          /\ task_result' = [task_result EXCEPT ![c] = FailureResult(c, StrOfException(m))]
          /\ pc' = [pc EXCEPT ![c] = "done"]
    /\ UNCHANGED <<stores, idx, locate_outcome, all_products, successful_stores>>
    /\ UNCHANGED <<inputVars, wfVars, loaderVars, pageVars, locatorVars, cardVars, fnVars, runVars, walkVars, sessVars>>

\* agent.py 126-128: the awaited per-store scrape raises, the store is skipped
StoreRaises(c) ==
    /\ pc[c] = "stores"
    /\ \E m \in ScrapeErrors :
          log' = [log EXCEPT ![c] = Append(@, [store |-> stores[c][idx[c]],
                                               raised |-> TRUE, text |-> m,
                                               batch |-> <<>>, nav_failed |-> FALSE])]
    /\ NextStore(c, all_products[c], successful_stores[c])
    /\ UNCHANGED <<stores, locate_outcome, all_products, successful_stores>>
    /\ UNCHANGED <<inputVars, wfVars, loaderVars, pageVars, locatorVars, cardVars, fnVars, runVars, walkVars, sessVars>>

TaskStep ==
    \E c \in CategoryNames :
        \/ LocateRaises(c)
        \/ LocateReturns(c)
        \/ StoreReturns(c)
        \/ StoreRaises(c)

(* ---------------------------------------------------------------------- *)
(* Strings as sequences of tokens                                          *)
(* ---------------------------------------------------------------------- *)
\* tools.py 20: BASE
BASE == "https://www.trulieve.com"

\* index of the first occurrence of token t in q at or after position i, 0 when there is none
RECURSIVE IndexFrom(_, _, _)
IndexFrom(q, t, i) ==
    IF i > Len(q) THEN 0 ELSE IF q[i] = t THEN i ELSE IndexFrom(q, t, i + 1)

\* the tokens of q before the first occurrence of t (all of q when there is none)
Before(q, t) ==
    IF IndexFrom(q, t, 1) = 0 THEN q ELSE SubSeq(q, 1, IndexFrom(q, t, 1) - 1)

\* str.upper() and str.lower() on the tokens that carry letters
Upper(q) ==
    [i \in DOMAIN q |-> CASE q[i] = "fl" -> "FL" [] q[i] = "orida" -> "ORIDA"
                          [] q[i] = "Miami" -> "MIAMI" [] q[i] = "miami" -> "MIAMI"
                          [] q[i] = "Tampa" -> "TAMPA" [] q[i] = "tampa" -> "TAMPA"
                          [] q[i] = "Store" -> "STORE" [] q[i] = "ca" -> "CA"
                          [] q[i] = "/dispensaries/" -> "/DISPENSARIES/"
                          [] q[i] = "0.5g" -> "0.5G" [] q[i] = "1g" -> "1G"
                          [] q[i] = "2g" -> "2G" [] q[i] = "3.5g" -> "3.5G"
                          [] q[i] = "5g" -> "5G" [] q[i] = "7g" -> "7G"
                          [] q[i] = "10g" -> "10G" [] q[i] = "14g" -> "14G"
                          [] q[i] = "28g" -> "28G" [] q[i] = "flower" -> "FLOWER"
                          [] q[i] = "Flower" -> "FLOWER" [] q[i] = "Home" -> "HOME"
                          [] q[i] = "home" -> "HOME"
                          [] OTHER -> q[i]]
Lower(q) ==
    [i \in DOMAIN q |-> CASE q[i] = "FL" -> "fl" [] q[i] = "ORIDA" -> "orida"
                          [] q[i] = "Miami" -> "miami" [] q[i] = "MIAMI" -> "miami"
                          [] q[i] = "Tampa" -> "tampa" [] q[i] = "TAMPA" -> "tampa"
                          [] q[i] = "Store" -> "store" [] q[i] = "CA" -> "ca"
                          [] q[i] = "/DISPENSARIES/" -> "/dispensaries/"
                          [] q[i] = "0.5G" -> "0.5g" [] q[i] = "1G" -> "1g"
                          [] q[i] = "2G" -> "2g" [] q[i] = "3.5G" -> "3.5g"
                          [] q[i] = "5G" -> "5g" [] q[i] = "7G" -> "7g"
                          [] q[i] = "10G" -> "10g" [] q[i] = "14G" -> "14g"
                          [] q[i] = "28G" -> "28g" [] q[i] = "FLOWER" -> "flower"
                          [] q[i] = "Flower" -> "flower" [] q[i] = "Home" -> "home"
                          [] q[i] = "HOME" -> "home"
                          [] OTHER -> q[i]]

\* needle in haystack, haystack.endswith(needle)
IsInfix(needle, hay) ==
    \E i \in 1..Len(hay) :
        /\ i + Len(needle) - 1 <= Len(hay)
        /\ SubSeq(hay, i, i + Len(needle) - 1) = needle
EndsWith(hay, needle) ==
    /\ Len(hay) >= Len(needle)
    /\ SubSeq(hay, Len(hay) - Len(needle) + 1, Len(hay)) = needle

(* ---------------------------------------------------------------------- *)
(* tools.py field extractors: size, grams, price, price per gram           *)
(* ---------------------------------------------------------------------- *)
\* tools.py 29: SIZE_MAP, grams in tenths of a gram
SIZE_MAP ==
    (<<"0.5g">> :> 5) @@ (<<"1g">> :> 10) @@ (<<"2g">> :> 20) @@ (<<"3.5g">> :> 35)
        @@ (<<"7g">> :> 70) @@ (<<"10g">> :> 100) @@ (<<"14g">> :> 140) @@ (<<"28g">> :> 280)

grams_from_size_prefix(s) ==
    LET key == Lower(IF Truthy(s) THEN s.text ELSE <<>>)
    IN IF key # <<>> /\ <<key[1]>> \in DOMAIN SIZE_MAP
       THEN SomeInt(SIZE_MAP[<<key[1]>>]) ELSE NoneInt

\* tools.py 32-34: SIZE_MAP.get((s or "").lower())
grams_from_size(s) ==
    LET key == Lower(IF Truthy(s) THEN s.text ELSE <<>>)
    IN IF key \in DOMAIN SIZE_MAP THEN SomeInt(SIZE_MAP[key]) ELSE NoneInt

\* tools.py 24, 290: SIZE_RE.search(card_text).group(1).lower() if there is a match, else
\* None; a text is a sequence of words and separators, so a match is a whole token
RECURSIVE SizeSearch(_, _)
SizeSearch(text, i) ==
    IF i > Len(text) THEN NoneStr
    ELSE IF Lower(<<text[i]>>) \in DOMAIN SIZE_MAP
         THEN SomeStr(Lower(<<text[i]>>))
         ELSE SizeSearch(text, i + 1)

\* the digit groups of the model's texts and their values: an integer part, and a
\* fraction of exactly two digits in cents (".5" is a fraction PRICE_RE does not take)
Digits == ("0" :> 0) @@ ("19" :> 19) @@ ("25" :> 25) @@ ("35" :> 35)
Cents == (".00" :> 0) @@ (".50" :> 50) @@ (".99" :> 99)

RECURSIVE SkipSpaces(_, _)
SkipSpaces(text, i) ==
    IF i <= Len(text) /\ text[i] = " " THEN SkipSpaces(text, i + 1) ELSE i

\* tools.py 23, 149: [float(m.group(1)) for m in PRICE_RE.finditer(blob)], in cents, where
\* PRICE_RE is "$", optional whitespace, digits and an optional two-digit fraction
RECURSIVE PriceVals(_, _)
PriceVals(text, i) ==
    IF i > Len(text) THEN <<>>
    ELSE IF text[i] = "$"
         THEN LET j == SkipSpaces(text, i + 1)
              IN IF j <= Len(text) /\ text[j] \in DOMAIN Digits
                 THEN IF j + 1 <= Len(text) /\ text[j + 1] \in DOMAIN Cents
                      THEN <<100 * Digits[text[j]] + Cents[text[j + 1]]>>
                               \o PriceVals(text, j + 2)
                      ELSE <<100 * Digits[text[j]]>> \o PriceVals(text, j + 1)
                 ELSE PriceVals(text, j)
         ELSE PriceVals(text, i + 1)

\* min(vals)
RECURSIVE MinOf(_)
MinOf(vals) ==
    IF Len(vals) = 1 THEN vals[1]
    ELSE IF vals[1] <= MinOf(Tail(vals)) THEN vals[1] ELSE MinOf(Tail(vals))

MinPrice_first(text) ==
    IF PriceVals(text, 1) # <<>> THEN SomeInt(PriceVals(text, 1)[1]) ELSE NoneInt

\* tools.py 149-150, 171-172: min(vals) if vals else None
MinPrice(text) ==
    IF PriceVals(text, 1) # <<>> THEN SomeInt(MinOf(PriceVals(text, 1))) ELSE NoneInt

\* round(n / d) for integers n >= 0, d > 0, halves to the even neighbour
RoundDiv(n, d) ==
    LET q == n \div d
        r == n % d
    IN IF 2 * r < d THEN q
       ELSE IF 2 * r > d THEN q + 1
       ELSE IF q % 2 = 0 THEN q ELSE q + 1

\* tools.py 354: round(price / grams, 2) if price and grams else None, in cents per gram
\* (price in cents, grams in tenths of a gram); 0.0 is falsy
price_per_g(p, g) ==
    IF (p.present /\ p.val # 0) /\ (g.present /\ g.val # 0)
    THEN SomeInt(RoundDiv(10 * p.val, g.val))
    ELSE NoneInt

\* tools.py 59-64: href.split("/product/", 1)[1].split("?", 1)[0].split("#", 1)[0].strip("/");
\* an href without "/product/" raises IndexError and the href itself is returned
product_slug(href) ==
    IF IndexFrom(href, "/product/", 1) = 0
    THEN href
    ELSE LET rest == SubSeq(href, IndexFrom(href, "/product/", 1) + 1, Len(href))
             cut == Before(Before(rest, "?"), "#")
         IN SelectSeq(cut, LAMBDA t : t # "/")

\* urljoin(BASE, href) for a site-relative href
urljoin(href) == <<BASE>> \o href

(* ---------------------------------------------------------------------- *)
(* tools.scrape_category: one store/category scrape pass                   *)
(* ---------------------------------------------------------------------- *)
\* the hrefs of the product links of a page
LinkHrefs ==
    {<<"/product/", "blue-dream">>, <<"/product/", "blue-dream", "?", "variant=2">>,
     <<"/product/", "og-kush">>}
\* the size tokens SIZE_RE finds in a card's text; NoneStr when it finds none
LinkSizes == {NoneStr, SomeStr(<<"3.5g">>)}
\* the prices read for a link, in cents
LinkPrices == {SomeInt(2500), SomeInt(4000)}
\* the strain type and the THC percentage (in tenths of a percent) read for a link; the
\* cards of these pages name neither
LinkStrains == {NoneStr}
LinkThcs == {NoneInt}

\* a product link as the pass reads it: "ok" yields a candidate record, "noname" has an
\* empty text, "raises" makes a read of the link or its card raise
Links ==
    [kind : {"ok"}, href : LinkHrefs, size : LinkSizes, price : LinkPrices,
     strain : LinkStrains, thc : LinkThcs]
        \cup [kind : {"noname", "raises"}, href : {<<"/product/", "og-kush">>},
              size : {NoneStr}, price : {SomeInt(2500)}, strain : LinkStrains,
              thc : LinkThcs]

LinkLists == UNION {[1..k -> Links] : k \in 0..MaxLinks}

DedupKey_slugOnly(store_name, l, subcategory) ==
    <<store_name, product_slug(l.href), NoneStr, subcategory>>

\* tools.py 338: key = (store_name, slug, size, subcategory)
DedupKey(store_name, l, subcategory) ==
    <<store_name, product_slug(l.href), l.size, subcategory>>

\* tools.py 343-356: the row appended for a link
Row(store_name, l, subcategory) ==
    [store |-> store_name, subcategory |-> subcategory, name |-> "name",
     strain_type |-> l.strain, thc_pct |-> l.thc, size_raw |-> l.size, grams |-> grams_from_size(l.size), price |-> l.price,
     price_per_g |-> price_per_g(l.price, grams_from_size(l.size)),
     url |-> IF l.href # <<>> THEN SomeStr(urljoin(l.href)) ELSE NoneStr]

IdlePage ==
    /\ spc = "idle"
    /\ page_store = 0
    /\ page_category = ""
    /\ name_links = <<>>
    /\ link_i = 0
    /\ rows = <<>>
    /\ seen = {}
    /\ page_result = <<>>

pageFrame == <<inputVars, taskVars, wfVars, loaderVars, locatorVars, cardVars,
              fnVars, runVars, walkVars, sessVars>>

\* tools.py 278: the loop moves to the next link
NextLink ==
    /\ link_i' = link_i + 1
    /\ UNCHANGED <<spc, page_store, page_category, name_links, page_result>>
    /\ UNCHANGED pageFrame

\* tools.py 280-282: the link's text is empty
SkipEmptyName ==
    /\ spc = "links"
    /\ link_i <= Len(name_links)
    /\ name_links[link_i].kind = "noname"
    /\ UNCHANGED <<rows, seen>>
    /\ NextLink

\* tools.py 280, 357-358: reading the link or its card raises, the bare except continues
SkipRaising ==
    /\ spc = "links"
    /\ link_i <= Len(name_links)
    /\ name_links[link_i].kind = "raises"
    /\ UNCHANGED <<rows, seen>>
    /\ NextLink

\* tools.py 338-340: the key was seen in this pass
SkipDuplicate ==
    /\ spc = "links"
    /\ link_i <= Len(name_links)
    /\ name_links[link_i].kind = "ok"
    /\ DedupKey(page_store, name_links[link_i], page_category) \in seen
    /\ UNCHANGED <<rows, seen>>
    /\ NextLink

\* tools.py 338-356: a new key is added to seen, the row is appended
EmitRow ==
    /\ spc = "links"
    /\ link_i <= Len(name_links)
    /\ name_links[link_i].kind = "ok"
    /\ DedupKey(page_store, name_links[link_i], page_category) \notin seen
    /\ seen' = seen \cup {DedupKey(page_store, name_links[link_i], page_category)}
    /\ rows' = Append(rows, Row(page_store, name_links[link_i], page_category))
    /\ NextLink

\* tools.py 360: return rows
ScrapeCategoryReturns ==
    /\ spc = "links"
    /\ link_i > Len(name_links)
    /\ spc' = "done"
    /\ UNCHANGED <<page_store, page_category, name_links, link_i, rows, seen, page_result>>
    /\ UNCHANGED pageFrame

\* models.py 42-49: validate_subcategory raises ValueError for a value outside the list;
\* the other validators (models.py 34-40, 51-73) return a value and never raise
ProductDataRaises(row) == row.subcategory \notin CategoryNames

\* models.py 38: the strain types validate_strain_type keeps
StrainTypes == {<<"Indica">>, <<"Sativa">>, <<"Hybrid">>}

ProductData_pricesOnly(row) ==
    [row EXCEPT !.price = IF @.present /\ @.val < 0 THEN NoneInt ELSE @,
                !.price_per_g = IF @.present /\ @.val < 0 THEN NoneInt ELSE @]

\* models.py 13-73: ProductData(**row) for a row it accepts: validate_strain_type
\* (34-40), validate_thc_pct (51-57, tenths of a percent), validate_prices (59-65) and
\* validate_grams (67-73) turn a value out of range into None
ProductData(row) ==
    [row EXCEPT !.strain_type = IF @.present /\ @.text \notin StrainTypes THEN NoneStr ELSE @,
                !.thc_pct = IF @.present /\ (@.val < 0 \/ @.val > 1000) THEN NoneInt ELSE @,
                !.price = IF @.present /\ @.val < 0 THEN NoneInt ELSE @,
                !.price_per_g = IF @.present /\ @.val < 0 THEN NoneInt ELSE @,
                !.grams = IF @.present /\ @.val <= 0 THEN NoneInt ELSE @]

\* tools.py 450, 452-453: every row is accepted, the list is returned and the page closed
ConstructReturns ==
    /\ spc = "done"
    /\ \A k \in DOMAIN rows : ~ProductDataRaises(rows[k])
    /\ page_result' = [k \in DOMAIN rows |-> ProductData(rows[k])]
    /\ spc' = "returned"
    /\ UNCHANGED <<page_store, page_category, name_links, link_i, rows, seen>>
    /\ UNCHANGED pageFrame

\* tools.py 450, 452-453: ProductData(**row) raises for a row; the comprehension is outside
\* any handler, the page is closed and the exception leaves scrape_store_category_tool
ConstructRaises ==
    /\ spc = "done"
    /\ \E k \in DOMAIN rows : ProductDataRaises(rows[k])
    /\ spc' = "raised"
    /\ UNCHANGED <<page_store, page_category, name_links, link_i, rows, seen, page_result>>
    /\ UNCHANGED pageFrame

(* ---------------------------------------------------------------------- *)
(* tools.looks_like_florida and tools.extract_fl_store_links               *)
(* ---------------------------------------------------------------------- *)
looks_like_florida_bothPresent(href, text) ==
    LET t == Upper(IF Truthy(text) THEN text.text ELSE <<>>)
        h == Lower(IF Truthy(href) THEN href.text ELSE <<>>)
    IN /\ Truthy(href)
       /\ Truthy(text)
       /\ \/ IsInfix(<<",", " ", "FL">>, t)
          \/ EndsWith(t, <<" ", "FL">>)
          \/ IsInfix(<<" ", "FL", " ">>, t)
          \/ IsInfix(<<"/", "fl", "orida">>, h)
          \/ IsInfix(<<"-", "fl", "-">>, h)
          \/ EndsWith(h, <<"/", "fl">>)
          \/ EndsWith(h, <<"-", "fl">>)

\* tools.py 37-56
looks_like_florida(href, text) ==
    LET t == Upper(IF Truthy(text) THEN text.text ELSE <<>>)
        h == Lower(IF Truthy(href) THEN href.text ELSE <<>>)
    IN \/ IsInfix(<<",", " ", "FL">>, t)
       \/ EndsWith(t, <<" ", "FL">>)
       \/ IsInfix(<<" ", "FL", " ">>, t)
       \/ IsInfix(<<"/", "fl", "orida">>, h)
       \/ IsInfix(<<"-", "fl", "-">>, h)
       \/ EndsWith(h, <<"/", "fl">>)
       \/ EndsWith(h, <<"-", "fl">>)

RECURSIVE StripLeft(_)
StripLeft(q) == IF q # <<>> /\ Head(q) = " " THEN StripLeft(Tail(q)) ELSE q
RECURSIVE StripRight(_)
StripRight(q) ==
    IF q # <<>> /\ q[Len(q)] = " " THEN StripRight(SubSeq(q, 1, Len(q) - 1)) ELSE q
\* str.strip()
Strip(q) == StripRight(StripLeft(q))

RECURSIVE Collapse(_, _)
Collapse(q, i) ==
    IF i > Len(q) THEN <<>>
    ELSE IF q[i] = " " /\ (i = Len(q) \/ q[i + 1] = " ")
         THEN Collapse(q, i + 1)
         ELSE <<q[i]>> \o Collapse(q, i + 1)
\* tools.py 88: " ".join(txt.split())
JoinSplit(q) == Collapse(Strip(q), 1)

\* the anchors a dispensaries page can hold, as [href, text]
Anchors ==
    {[href |-> <<"/dispensaries/", "miami", "-", "fl">>, text |-> <<"Miami", ",", " ", "FL">>],
     [href |-> <<"/dispensaries/", "miami", "-", "fl">>, text |-> <<"Miami", " ", "Store">>],
     [href |-> <<"/dispensaries/", "miami", "-", "fl", "-", "2">>,
      text |-> <<" ", "Miami", ",", " ", " ", "FL">>],
     [href |-> <<"/dispensaries/", "los-angeles", "-", "ca">>, text |-> <<"California", " ", "Store">>],
     [href |-> <<"/dispensaries/", "tampa">>, text |-> <<"Tampa", " ", "fl">>],
     [href |-> <<"/dispensaries/", "tampa">>, text |-> <<"Tampa">>]}

AnchorLists == UNION {[1..k -> Anchors] : k \in 0..MaxAnchors}

RECURSIVE HrefPass(_, _, _, _)
\* tools.py 81-88: the in-region anchors whose href was not seen before
HrefPass(as, i, out, seenh) ==
    IF i > Len(as) THEN out
    ELSE LET href == as[i].href
             txt == Strip(as[i].text)
         IN IF /\ href # <<>>
               /\ IndexFrom(href, "/dispensaries/", 1) # 0
               /\ href \notin seenh
               /\ looks_like_florida(SomeStr(href), SomeStr(txt))
            THEN HrefPass(as, i + 1, Append(out, <<JoinSplit(txt), urljoin(href)>>),
                          seenh \cup {href})
            ELSE HrefPass(as, i + 1, out, seenh)

RECURSIVE NamePass(_, _, _, _)
NamePass(out, i, uniq, names) ==
    IF i > Len(out) THEN uniq
    ELSE IF out[i][1] \notin names
         THEN NamePass(out, i + 1, Append(uniq, out[i]), names \cup {out[i][1]})
         ELSE NamePass(out, i + 1, uniq, names)

DedupNames_keepAll(out) == out

\* tools.py 90-95: deduplicate by name
DedupNames(out) == NamePass(out, 1, <<>>, {})

\* tools.py 67-98
extract_fl_store_links(as) == DedupNames(HrefPass(as, 1, <<>>, {}))

IdleLocator ==
    /\ dpc = "idle"
    /\ anchors = <<>>
    /\ unreadable = 0
    /\ store_links = <<>>

IdleCard ==
    /\ cpc = "idle"
    /\ card_href = <<>>
    /\ card_text = <<>>
    /\ price_els = <<>>
    /\ els_failed = FALSE
    /\ card_price = NoneInt
    /\ price = NoneInt
    /\ brand = NoneStr
    /\ ppc = "none"
    /\ open_pages = 0
    /\ pdp_body = NoneStr
    /\ pdp_price = NoneInt
    /\ card_row = <<>>
    /\ card_brand = NoneStr
    /\ fetches = <<>>

IdleFn ==
    /\ fpc = "idle"
    /\ fn = ""
    /\ arg_size = NoneStr
    /\ arg_href = NoneStr
    /\ arg_text = NoneStr
    /\ ret_grams = NoneInt
    /\ ret_florida = FALSE
    /\ arg_row = <<>>
    /\ ret_product = <<>>

IdleRun ==
    /\ rpc = "idle"
    /\ deps_client = "unset"
    /\ browser = "none"

IdleWalk ==
    /\ kpc = "idle"
    /\ shown_steps = 0
    /\ shown_forever = FALSE
    /\ ending = "absent"
    /\ fail_call = "none"
    /\ fail_step = 0
    /\ first_callable = TRUE
    /\ step = 0
    /\ loaded = 0
    /\ wtrace = <<>>

IdleSession == add_calls = <<>>

\* tools.py 97: return uniq
ExtractReturns ==
    /\ dpc = "called"
    /\ unreadable = 0
    /\ store_links' = extract_fl_store_links(anchors)
    /\ dpc' = "returned"
    /\ UNCHANGED <<anchors, unreadable>>
    /\ UNCHANGED <<inputVars, taskVars, wfVars, loaderVars, pageVars, cardVars, fnVars, runVars, walkVars, sessVars>>

\* tools.py 83-85: a.get_attribute("href") or a.text_content() raises; the loop has no
\* handler, the exception leaves extract_fl_store_links and nothing is returned
ExtractRaises ==
    /\ dpc = "called"
    /\ unreadable # 0
    /\ dpc' = "raised"
    /\ UNCHANGED <<anchors, unreadable, store_links>>
    /\ UNCHANGED <<inputVars, taskVars, wfVars, loaderVars, pageVars, cardVars, fnVars, runVars, walkVars, sessVars>>

(* ---------------------------------------------------------------------- *)
(* The workflow's locals before run_complete_scraping_workflow starts      *)
(* ---------------------------------------------------------------------- *)
IdleWorkflow ==
    /\ scraping_results = EmptyMap
    /\ session = NewSession
    /\ store_in_database = FALSE
    /\ client = "unread"
    /\ database_results = EmptyMap
    /\ outcome = "running"
    /\ finalize_calls = 0
    /\ insert_calls = 0

(* ---------------------------------------------------------------------- *)
(* models.DatabaseInsertResult and the outcomes the loader builds          *)
(* ---------------------------------------------------------------------- *)
DatabaseInsertResult(table, category, success, rows_inserted, error_message) ==
    [table_name |-> table, category |-> category, success |-> success,
     rows_inserted |-> rows_inserted, error_message |-> error_message]

NoInsertResult == DatabaseInsertResult("", "", FALSE, 0, NoneStr)

\* models.py 114-119: SnowflakeConfig.tables
Tables ==
    [c \in CategoryNames |->
        CASE c = "Whole Flower" -> "TL_Scrape_WHOLE_FLOWER"
          [] c = "Pre-Rolls" -> "TL_Scrape_Pre_Rolls"
          [] OTHER -> "TL_Scrape_Ground_Shake"]

\* snowflake_client.py 157: category = products[0].subcategory
CategoryOf(prods) == IF prods # <<>> THEN prods[1].subcategory ELSE "unknown"

\* snowflake_client.py 147-154
EmptyInsert(table) == DatabaseInsertResult(table, "unknown", TRUE, 0, NoneStr)
\* snowflake_client.py 186-194
InsertSuccess(table, prods, nrows) ==
    DatabaseInsertResult(table, CategoryOf(prods), TRUE, nrows, NoneStr)
\* snowflake_client.py 200-208 and 212-220
InsertFailure(table, prods, text) ==
    DatabaseInsertResult(table, CategoryOf(prods), FALSE, 0, SomeStr(text))
\* snowflake_client.py 254-259
NoTableMessage(category) == <<"No table mapping for category: ", category>>
UnmappedFailure(category) ==
    DatabaseInsertResult("unknown", category, FALSE, 0, SomeStr(NoTableMessage(category)))

IdleLoader ==
    /\ lpc = "idle"
    /\ lcall = "none"
    /\ connection = "none"
    /\ attempt = 0
    /\ groups = <<>>
    /\ gi = 0
    /\ cur_products = <<>>
    /\ cur_table = ""
    /\ insert_results = EmptyMap
    /\ last_result = NoInsertResult
    /\ connect_outcome = "none"
    /\ trace = <<>>
    /\ cur_key = ""
    /\ hist_of = EmptyMap
    /\ sleeps_of = EmptyMap

(* ---------------------------------------------------------------------- *)
(* agent.scrape_all_categories and agent.run_complete_scraping_workflow    *)
(* ---------------------------------------------------------------------- *)
\* agent.py 182-195: the categories whose task is created
SelectCategories(subset) ==
    IF subset.present /\ subset.names # {}
    THEN SelectSeq(DefaultCategories, LAMBDA name : name \in subset.names)
    ELSE DefaultCategories

\* agent.py 215-227: every launched task returned a ScrapingResult (scrape_single_category
\* catches every Exception itself), so each entry is the task's own result
GatherResults(tasks, completed) == [c \in Range(tasks) |-> completed[c]]

RECURSIVE AddResults(_, _, _, _)
\* agent.py 343-345: add_result for every item of the mapping, in its order
AddResults(s, order, results, i) ==
    IF i > Len(order) THEN s
    ELSE AddResults(add_result(s, order[i], results[order[i]]), order, results, i + 1)

\* agent.py 262-265: products_by_category, in the order of the results mapping
ProductsByCategory(order, results) ==
    LET kept == SelectSeq(order, LAMBDA c : results[c].success /\ results[c].products # <<>>)
    IN [i \in DOMAIN kept |-> [category |-> kept[i], products |-> results[kept[i]].products]]

GroupCategories(pbc) == {pbc[i].category : i \in DOMAIN pbc}
GroupProducts(pbc, c) == (CHOOSE i \in DOMAIN pbc : pbc[i].category = c)

\* "Database insert failed for {category}: {db_result.error_message}"
InsertFailedMessage(category, r) ==
    <<"Database insert failed for ", category, ": ">>
        \o (IF r.error_message.present THEN r.error_message.text ELSE <<"None">>)

RECURSIVE DatabaseErrors(_, _, _, _)
\* agent.py 353-357
DatabaseErrors(errors, pbc, dbr, i) ==
    IF i > Len(pbc) THEN errors
    ELSE DatabaseErrors(IF ~dbr[pbc[i].category].success
                        THEN Append(errors, InsertFailedMessage(pbc[i].category, dbr[pbc[i].category]))
                        ELSE errors,
                        pbc, dbr, i + 1)

InitWorkflow ==
    /\ wpc = "phase1"
    /\ \E n \in 0..WfMaxStores : directory = Directory(n)
    /\ max_stores \in {NoneInt} \cup {SomeInt(k) : k \in 0..WfMaxStores}
    /\ categories_to_scrape \in
          {[present |-> FALSE, names |-> {}]}
             \cup {[present |-> TRUE, names |-> S] : S \in SUBSET (CategoryNames \cup {UnknownCategory})}
    /\ launched = SelectCategories(categories_to_scrape)
    /\ pc = [c \in CategoryNames |-> IF c \in Range(launched) THEN "locate" ELSE "idle"]
    /\ stores = [c \in CategoryNames |-> <<>>]
    /\ idx = [c \in CategoryNames |-> 0]
    /\ all_products = [c \in CategoryNames |-> <<>>]
    /\ successful_stores = [c \in CategoryNames |-> 0]
    /\ task_result = [c \in CategoryNames |-> NoResult]
    /\ locate_outcome = [c \in CategoryNames |-> "pending"]
    /\ log = [c \in CategoryNames |-> <<>>]
    /\ IdleWorkflow
    /\ IdleLoader
    /\ IdlePage
    /\ IdleLocator
    /\ IdleCard
    /\ IdleFn
    /\ IdleRun
    /\ IdleWalk
    /\ IdleSession

AllTasksDone == \A c \in Range(launched) : pc[c] = "done"

\* agent.py 209-238, 339-345: gather completes, the results are added to the session
Gather ==
    /\ wpc = "phase1"
    /\ AllTasksDone
    /\ scraping_results' = GatherResults(launched, task_result)
    /\ session' = AddResults(session, launched, GatherResults(launched, task_result), 1)
    /\ wpc' = "phase2"
    /\ UNCHANGED <<store_in_database, client, database_results, outcome, finalize_calls,
                   insert_calls>>
    /\ UNCHANGED <<inputVars, taskVars, loaderVars, pageVars, locatorVars, cardVars, fnVars, runVars, walkVars, sessVars>>

\* agent.py 348-357 with 255-290: the by-category load returns one outcome per group
StoreInSnowflake ==
    /\ wpc = "phase2"
    /\ store_in_database' = TRUE
    /\ client' = "real"
    /\ LET pbc == ProductsByCategory(launched, scraping_results)
       IN \E failing \in SUBSET GroupCategories(pbc) : \E m \in InsertErrors :
             LET dbr == [c \in GroupCategories(pbc) |->
                           IF c \in failing
                           THEN InsertFailure(Tables[c], pbc[GroupProducts(pbc, c)].products,
                                              StrOfException(m))
                           ELSE InsertSuccess(Tables[c], pbc[GroupProducts(pbc, c)].products,
                                              Len(pbc[GroupProducts(pbc, c)].products))]
             IN /\ database_results' = dbr
                /\ session' = [session EXCEPT !.errors = DatabaseErrors(@, pbc, dbr, 1)]
                /\ insert_calls' = IF pbc = <<>> THEN insert_calls ELSE insert_calls + 1
    /\ wpc' = "finalize"
    /\ UNCHANGED <<scraping_results, outcome, finalize_calls>>
    /\ UNCHANGED <<inputVars, taskVars, loaderVars, pageVars, locatorVars, cardVars, fnVars, runVars, walkVars, sessVars>>

\* agent.py 272-275, 292-302: the injected client's by-category load raises
StoreInSnowflakeRaises ==
    /\ wpc = "phase2"
    /\ store_in_database' = TRUE
    /\ client' = "raising"
    /\ LET pbc == ProductsByCategory(launched, scraping_results)
       IN \E m \in InsertErrors :
             LET dbr == [c \in GroupCategories(pbc) |->
                           DatabaseInsertResult("unknown", c, FALSE, 0,
                                                SomeStr(StrOfException(m)))]
             IN /\ database_results' = dbr
                /\ session' = [session EXCEPT !.errors = DatabaseErrors(@, pbc, dbr, 1)]
                /\ insert_calls' = IF pbc = <<>> THEN insert_calls ELSE insert_calls + 1
    /\ wpc' = "finalize"
    /\ UNCHANGED <<scraping_results, outcome, finalize_calls>>
    /\ UNCHANGED <<inputVars, taskVars, loaderVars, pageVars, locatorVars, cardVars, fnVars, runVars, walkVars, sessVars>>

\* agent.py 358-360
ClientUnavailable ==
    /\ wpc = "phase2"
    /\ store_in_database' = TRUE
    /\ client' = "none"
    /\ session' = [session EXCEPT
                     !.errors = Append(@, <<"Snowflake client not available for database storage">>)]
    /\ wpc' = "finalize"
    /\ UNCHANGED <<scraping_results, database_results, outcome, finalize_calls,
                   insert_calls>>
    /\ UNCHANGED <<inputVars, taskVars, loaderVars, pageVars, locatorVars, cardVars, fnVars, runVars, walkVars, sessVars>>

SkipStorage_loads ==
    /\ wpc = "phase2"
    /\ store_in_database' = FALSE
    /\ LET pbc == ProductsByCategory(launched, scraping_results)
       IN /\ database_results' =
                [c \in GroupCategories(pbc) |->
                    InsertSuccess(Tables[c], pbc[GroupProducts(pbc, c)].products,
                                  Len(pbc[GroupProducts(pbc, c)].products))]
          /\ insert_calls' = IF pbc = <<>> THEN insert_calls ELSE insert_calls + 1
    /\ wpc' = "finalize"
    /\ UNCHANGED <<scraping_results, session, client, outcome, finalize_calls>>
    /\ UNCHANGED <<inputVars, taskVars, loaderVars, pageVars, locatorVars, cardVars, fnVars, runVars, walkVars, sessVars>>

\* agent.py 348, 358: store_in_database is false
SkipStorage ==
    /\ wpc = "phase2"
    /\ store_in_database' = FALSE
    /\ wpc' = "finalize"
    /\ UNCHANGED <<scraping_results, session, client, database_results, outcome,
                   finalize_calls, insert_calls>>
    /\ UNCHANGED <<inputVars, taskVars, loaderVars, pageVars, locatorVars, cardVars, fnVars, runVars, walkVars, sessVars>>

\* agent.py 362-371
Finalize ==
    /\ wpc = "finalize"
    /\ session' = finalize(session)
    /\ outcome' = "returned"
    /\ wpc' = "returned"
    /\ finalize_calls' = finalize_calls + 1
    /\ UNCHANGED <<scraping_results, store_in_database, client, database_results,
                   insert_calls>>
    /\ UNCHANGED <<inputVars, taskVars, loaderVars, pageVars, locatorVars, cardVars, fnVars, runVars, walkVars, sessVars>>

WorkflowExcept_noFinalize ==
    /\ \/ wpc = "phase1" /\ AllTasksDone
       \/ wpc = "phase2"
    /\ \E m \in WorkflowErrors :
          session' = [session EXCEPT !.success = FALSE,
                                     !.errors = Append(@, StrOfException(m))]
    /\ outcome' = "returned"
    /\ wpc' = "returned"
    /\ UNCHANGED <<scraping_results, store_in_database, client, database_results,
                   finalize_calls, insert_calls>>
    /\ UNCHANGED <<inputVars, taskVars, loaderVars, pageVars, locatorVars, cardVars, fnVars, runVars, walkVars, sessVars>>

\* agent.py 373-378: an exception escapes the body of the try block
WorkflowExcept ==
    /\ \/ wpc = "phase1" /\ AllTasksDone
       \/ wpc = "phase2"
    /\ \E m \in WorkflowErrors :
          session' = finalize([session EXCEPT !.success = FALSE,
                                              !.errors = Append(@, StrOfException(m))])
    /\ outcome' = "returned"
    /\ wpc' = "returned"
    /\ finalize_calls' = finalize_calls + 1
    /\ UNCHANGED <<scraping_results, store_in_database, client, database_results,
                   insert_calls>>
    /\ UNCHANGED <<inputVars, taskVars, loaderVars, pageVars, locatorVars, cardVars, fnVars, runVars, walkVars, sessVars>>

\* a direct call of scrape_single_category for one category
InitCategory ==
    /\ wpc = "direct"
    /\ \E n \in 0..MaxStores : directory = Directory(n)
    /\ max_stores \in {NoneInt} \cup {SomeInt(k) : k \in 0..MaxStores}
    /\ categories_to_scrape = [present |-> FALSE, names |-> {}]
    /\ \E c \in CategoryNames :
          /\ launched = <<c>>
          /\ pc = [d \in CategoryNames |-> IF d = c THEN "locate" ELSE "idle"]
    /\ stores = [c \in CategoryNames |-> <<>>]
    /\ idx = [c \in CategoryNames |-> 0]
    /\ all_products = [c \in CategoryNames |-> <<>>]
    /\ successful_stores = [c \in CategoryNames |-> 0]
    /\ task_result = [c \in CategoryNames |-> NoResult]
    /\ locate_outcome = [c \in CategoryNames |-> "pending"]
    /\ log = [c \in CategoryNames |-> <<>>]
    /\ IdleWorkflow
    /\ IdleLoader
    /\ IdlePage
    /\ IdleLocator
    /\ IdleCard
    /\ IdleFn
    /\ IdleRun
    /\ IdleWalk
    /\ IdleSession

NextCategory == TaskStep

SpecCategory == InitCategory /\ [][NextCategory]_vars

Next ==
    \/ TaskStep
    \/ Gather
    \/ StoreInSnowflake
    \/ StoreInSnowflakeRaises
    \/ ClientUnavailable
    \/ SkipStorage
    \/ Finalize
    \/ WorkflowExcept

Spec == InitWorkflow /\ [][Next]_vars

(* ---------------------------------------------------------------------- *)
(* snowflake_client.SnowflakeClient                                        *)
(* ---------------------------------------------------------------------- *)
\* snowflake_client.py 77, 160: range(3)
RetryAttempts == 3

LastAttempt_never(a) == FALSE

LastAttempt_first(a) == a = 0

\* snowflake_client.py 83, 200, 212: attempt == 2
LastAttempt(a) == a = 2

Pow2_constant(a) == 1

RECURSIVE Pow2(_)
\* snowflake_client.py 87, 209, 221: 2 ** attempt
Pow2(a) == IF a = 0 THEN 1 ELSE 2 * Pow2(a - 1)

Op(name, arg) == [op |-> name, arg |-> arg]

\* the categories a caller groups products under
LoaderCategories == CategoryNames \cup {UnknownCategory}
\* the sizes of the product lists a caller passes
RowCounts == {0, 2}
\* the ProductData records of a group: a record's subcategory is always one of the fixed set
GroupRecords(category, n) ==
    Batch(1, IF category \in CategoryNames THEN category ELSE DefaultCategories[1], n)

\* the texts of the exceptions an insert attempt ends with
NotConnectedText == <<"Connection not established. Call connect() first.">>
SuccessFalseText == <<"write_pandas returned success=False">>
ExhaustedText == <<"Exhausted all retry attempts">>

Attempted(key, ok, text) ==
    hist_of' = [hist_of EXCEPT ![key] = Append(@, [ok |-> ok, text |-> text])]

ReturnFromInsert_abortOnFailure(key, result) ==
    /\ last_result' = result
    /\ IF key # "direct"
       THEN /\ insert_results' = Put(insert_results, groups[gi].category, result)
            /\ gi' = gi + 1
            /\ lpc' = IF result.success THEN "bycat" ELSE "returned"
       ELSE /\ lpc' = "returned"
            /\ UNCHANGED <<insert_results, gi>>

\* snowflake_client.py 249-251: insert_products returns to its caller
ReturnFromInsert(key, result) ==
    /\ last_result' = result
    /\ IF key # "direct"
       THEN /\ insert_results' = Put(insert_results, groups[gi].category, result)
            /\ gi' = gi + 1
            /\ lpc' = "bycat"
       ELSE /\ lpc' = "returned"
            /\ UNCHANGED <<insert_results, gi>>

\* snowflake_client.py 198-221: an attempt failed with the exception text
AttemptFailed(text) ==
    IF LastAttempt(attempt)
    THEN ReturnFromInsert(cur_key, InsertFailure(cur_table, cur_products, text))
    ELSE /\ lpc' = "insert_sleep"
         /\ UNCHANGED <<last_result, insert_results, gi>>

loaderFrame == <<inputVars, taskVars, wfVars, pageVars, locatorVars, cardVars, fnVars, runVars, walkVars, sessVars>>

\* snowflake_client.py 71-77: connect() is called
CallConnect ==
    /\ lpc = "idle"
    /\ lcall' = "connect"
    /\ attempt' = 0
    /\ trace' = <<>>
    /\ connect_outcome' = "running"
    /\ lpc' = "connect"
    /\ UNCHANGED <<connection, groups, gi, cur_products, cur_table, insert_results,
                   last_result, cur_key, hist_of, sleeps_of>>
    /\ UNCHANGED loaderFrame

\* snowflake_client.py 79-81: the connector returns a connection
ConnectSucceeds ==
    /\ lpc = "connect"
    /\ connection' = "open"
    /\ trace' = Append(trace, Op("connect", 1))
    /\ connect_outcome' = "returned"
    /\ lpc' = "returned"
    /\ UNCHANGED <<lcall, attempt, groups, gi, cur_products, cur_table, insert_results,
                   last_result, cur_key, hist_of, sleeps_of>>
    /\ UNCHANGED loaderFrame

\* snowflake_client.py 82-86: the connector raises DatabaseError or InterfaceError
ConnectFails ==
    /\ lpc = "connect"
    /\ trace' = Append(trace, Op("connect", 0))
    /\ IF LastAttempt(attempt)
       THEN /\ connect_outcome' = "raised"
            /\ lpc' = "returned"
       ELSE /\ lpc' = "connect_sleep"
            /\ UNCHANGED connect_outcome
    /\ UNCHANGED <<lcall, connection, attempt, groups, gi, cur_products, cur_table,
                   insert_results, last_result, cur_key, hist_of, sleeps_of>>
    /\ UNCHANGED loaderFrame

\* snowflake_client.py 79, 82: the connector raises an exception the handler does not name
ConnectRaisesOther ==
    /\ lpc = "connect"
    /\ trace' = Append(trace, Op("connect", 0))
    /\ connect_outcome' = "raised_other"
    /\ lpc' = "returned"
    /\ UNCHANGED <<lcall, connection, attempt, groups, gi, cur_products, cur_table,
                   insert_results, last_result, cur_key, hist_of, sleeps_of>>
    /\ UNCHANGED loaderFrame

\* snowflake_client.py 87, 77: the backoff sleep, then the next iteration of range(3)
ConnectSleep ==
    /\ lpc = "connect_sleep"
    /\ trace' = Append(trace, Op("sleep", Pow2(attempt)))
    /\ attempt' = attempt + 1
    /\ IF attempt + 1 < RetryAttempts
       THEN /\ lpc' = "connect"
            /\ UNCHANGED connect_outcome
       ELSE /\ lpc' = "returned"
            /\ connect_outcome' = "returned"
    /\ UNCHANGED <<lcall, connection, groups, gi, cur_products, cur_table, insert_results,
                   last_result, cur_key, hist_of, sleeps_of>>
    /\ UNCHANGED loaderFrame

\* snowflake_client.py 326-339: close()
Close ==
    /\ lpc = "idle"
    /\ connection # "none"
    /\ connection' = "none"
    /\ lcall' = "close"
    /\ trace' = IF connection = "open" THEN <<Op("close", 0)>> ELSE <<>>
    /\ lpc' = "returned"
    /\ UNCHANGED <<attempt, groups, gi, cur_products, cur_table, insert_results,
                   last_result, connect_outcome, cur_key, hist_of, sleeps_of>>
    /\ UNCHANGED loaderFrame

\* the data store closes the connection under the client: is_closed() becomes true
ConnectionDrops ==
    /\ lpc = "idle"
    /\ connection = "open"
    /\ connection' = "closed"
    /\ UNCHANGED <<lpc, lcall, attempt, groups, gi, cur_products, cur_table, insert_results,
                   last_result, connect_outcome, trace, cur_key, hist_of, sleeps_of>>
    /\ UNCHANGED loaderFrame

InsertEmpty_noEarlyReturn(key, prods, table) ==
    /\ lpc' = "insert"
    /\ UNCHANGED <<last_result, insert_results, gi>>

\* snowflake_client.py 147-154: the early return for an empty product list
InsertEmpty(key, prods, table) == ReturnFromInsert(key, EmptyInsert(table))

\* snowflake_client.py 145-160: insert_products(products, table_name) is entered
EnterInsert(key, prods, table) ==
    /\ cur_key' = key
    /\ cur_products' = prods
    /\ cur_table' = table
    /\ trace' = <<>>
    /\ attempt' = 0
    /\ IF prods = <<>>
       THEN InsertEmpty(key, prods, table)
       ELSE /\ lpc' = "insert"
            /\ UNCHANGED <<last_result, insert_results, gi>>

\* a caller invokes insert_products directly
CallInsertProducts ==
    /\ lpc = "idle"
    /\ lcall' = "insert_products"
    /\ \E c \in CategoryNames : \E n \in RowCounts :
          EnterInsert("direct", GroupRecords(c, n), "TEST_TABLE")
    /\ hist_of' = [k \in {"direct"} |-> <<>>]
    /\ sleeps_of' = [k \in {"direct"} |-> <<>>]
    /\ groups' = <<>>
    /\ UNCHANGED <<connection, connect_outcome>>
    /\ UNCHANGED loaderFrame

\* snowflake_client.py 162 with 99-100, 111: get_connection raises, no connection is held
InsertNotConnected ==
    /\ lpc = "insert"
    /\ connection # "open"
    /\ trace' = Append(trace, Op("get_connection", 0))
    /\ Attempted(cur_key, FALSE, NotConnectedText)
    /\ AttemptFailed(NotConnectedText)
    /\ UNCHANGED <<lcall, connection, attempt, groups, cur_products, cur_table,
                   connect_outcome, cur_key, sleeps_of>>
    /\ UNCHANGED loaderFrame

\* snowflake_client.py 162-194 with 121-124: write_pandas reports success, commit, return
InsertSucceeds ==
    /\ lpc = "insert"
    /\ connection = "open"
    /\ trace' = trace \o <<Op("get_connection", 1), Op("write_pandas", Len(cur_products)),
                           Op("commit", 0)>>
    /\ Attempted(cur_key, TRUE, <<>>)
    /\ ReturnFromInsert(cur_key, InsertSuccess(cur_table, cur_products, Len(cur_products)))
    /\ UNCHANGED <<lcall, connection, attempt, groups, cur_products, cur_table,
                   connect_outcome, cur_key, sleeps_of>>
    /\ UNCHANGED loaderFrame

\* snowflake_client.py 195-196, 210-221 with 114-126: write_pandas reports success=False
InsertReportsFailure ==
    /\ lpc = "insert"
    /\ connection = "open"
    /\ trace' = trace \o <<Op("get_connection", 1), Op("write_pandas", 0),
                           Op("rollback", 0), Op("commit", 0)>>
    /\ Attempted(cur_key, FALSE, SuccessFalseText)
    /\ AttemptFailed(SuccessFalseText)
    /\ UNCHANGED <<lcall, connection, attempt, groups, cur_products, cur_table,
                   connect_outcome, cur_key, sleeps_of>>
    /\ UNCHANGED loaderFrame

\* snowflake_client.py 173, 198-209 with 114-126: write_pandas raises a data-store error
InsertRaises ==
    /\ lpc = "insert"
    /\ connection = "open"
    /\ trace' = trace \o <<Op("get_connection", 1), Op("write_pandas", 0),
                           Op("rollback", 0), Op("commit", 0)>>
    /\ \E m \in InsertErrors :
          /\ Attempted(cur_key, FALSE, StrOfException(m))
          /\ AttemptFailed(StrOfException(m))
    /\ UNCHANGED <<lcall, connection, attempt, groups, cur_products, cur_table,
                   connect_outcome, cur_key, sleeps_of>>
    /\ UNCHANGED loaderFrame

\* snowflake_client.py 209, 221, 160, 223-229: the backoff sleep, then the next iteration
InsertSleep ==
    /\ lpc = "insert_sleep"
    /\ trace' = Append(trace, Op("sleep", Pow2(attempt)))
    /\ sleeps_of' = [sleeps_of EXCEPT ![cur_key] = Append(@, Pow2(attempt))]
    /\ attempt' = attempt + 1
    /\ IF attempt + 1 < RetryAttempts
       THEN /\ lpc' = "insert"
            /\ UNCHANGED <<last_result, insert_results, gi>>
       ELSE ReturnFromInsert(cur_key, InsertFailure(cur_table, cur_products, ExhaustedText))
    /\ UNCHANGED <<lcall, connection, groups, cur_products, cur_table, connect_outcome,
                   cur_key, hist_of>>
    /\ UNCHANGED loaderFrame

\* the mappings a caller passes: at most MaxGroups groups under distinct categories
GroupLists ==
    UNION {{g \in [1..k -> [category : LoaderCategories,
                            products : {GroupRecords(c, n) : c \in LoaderCategories,
                                                            n \in RowCounts}]] :
               /\ \A i \in 1..k : \E n \in RowCounts :
                     g[i].products = GroupRecords(g[i].category, n)
               /\ \A i, j \in 1..k : i # j => g[i].category # g[j].category}
           : k \in 0..MaxGroups}

\* snowflake_client.py 231-246: insert_products_by_category(products_by_category) is called
CallInsertByCategory ==
    /\ lpc = "idle"
    /\ lcall' = "insert_products_by_category"
    /\ \E g \in GroupLists :
          /\ groups' = g
          /\ hist_of' = [c \in {g[i].category : i \in DOMAIN g} |-> <<>>]
          /\ sleeps_of' = [c \in {g[i].category : i \in DOMAIN g} |-> <<>>]
    /\ gi' = 1
    /\ insert_results' = EmptyMap
    /\ lpc' = "bycat"
    /\ trace' = <<>>
    /\ UNCHANGED <<connection, attempt, cur_products, cur_table, last_result,
                   connect_outcome, cur_key>>
    /\ UNCHANGED loaderFrame

ByCategoryUnmapped_attempts ==
    /\ lpc = "bycat"
    /\ gi <= Len(groups)
    /\ groups[gi].category \notin DOMAIN Tables
    /\ cur_key' = groups[gi].category
    /\ cur_products' = groups[gi].products
    /\ cur_table' = "unknown"
    /\ trace' = <<>>
    /\ attempt' = 0
    /\ lpc' = "insert"
    /\ UNCHANGED <<last_result, insert_results, gi>>
    /\ UNCHANGED <<lcall, connection, groups, connect_outcome, hist_of, sleeps_of>>
    /\ UNCHANGED loaderFrame

\* snowflake_client.py 246-251: the group's category has a table, insert_products is called
ByCategoryInsert ==
    /\ lpc = "bycat"
    /\ gi <= Len(groups)
    /\ groups[gi].category \in DOMAIN Tables
    /\ EnterInsert(groups[gi].category, groups[gi].products, Tables[groups[gi].category])
    /\ UNCHANGED <<lcall, connection, groups, connect_outcome, hist_of, sleeps_of>>
    /\ UNCHANGED loaderFrame

\* snowflake_client.py 252-259: the group's category has no table
ByCategoryUnmapped ==
    /\ lpc = "bycat"
    /\ gi <= Len(groups)
    /\ groups[gi].category \notin DOMAIN Tables
    /\ insert_results' = Put(insert_results, groups[gi].category,
                             UnmappedFailure(groups[gi].category))
    /\ gi' = gi + 1
    /\ UNCHANGED <<lpc, lcall, connection, attempt, groups, cur_products, cur_table,
                   last_result, connect_outcome, trace, cur_key, hist_of, sleeps_of>>
    /\ UNCHANGED loaderFrame

\* snowflake_client.py 246, 261: the loop is over, the mapping is returned
ByCategoryReturns ==
    /\ lpc = "bycat"
    /\ gi > Len(groups)
    /\ lpc' = "returned"
    /\ UNCHANGED <<lcall, connection, attempt, groups, gi, cur_products, cur_table,
                   insert_results, last_result, connect_outcome, trace, cur_key, hist_of,
                   sleeps_of>>
    /\ UNCHANGED loaderFrame

\* the mappings a caller passes to the mock: the records of a group carry any subcategory
MockGroupLists ==
    UNION {{g \in [1..k -> [category : LoaderCategories,
                            products : {Batch(1, c, n) : c \in CategoryNames, n \in RowCounts}]] :
               \A i, j \in 1..k : i # j => g[i].category # g[j].category}
           : k \in 0..MaxGroups}

\* snowflake_client.py 387: config.tables.get(category, f"mock_table_{...}")
MockTable(category) ==
    IF category \in DOMAIN Tables THEN Tables[category] ELSE "mock_table_edibles"

\* snowflake_client.py 361-377: MockSnowflakeClient.insert_products
MockInsert(prods, table) ==
    DatabaseInsertResult(table, CategoryOf(prods), TRUE, Len(prods), NoneStr)

\* snowflake_client.py 379-390: MockSnowflakeClient.insert_products_by_category, which
\* never suspends
CallMockInsertByCategory ==
    /\ lpc = "idle"
    /\ lcall' = "mock_insert_products_by_category"
    /\ \E g \in MockGroupLists :
          /\ groups' = g
          /\ insert_results' = [c \in {g[i].category : i \in DOMAIN g} |->
                                  LET i == CHOOSE j \in DOMAIN g : g[j].category = c
                                  IN MockInsert(g[i].products, MockTable(c))]
          /\ gi' = Len(g) + 1
    /\ lpc' = "returned"
    /\ UNCHANGED <<connection, attempt, cur_products, cur_table, last_result,
                   connect_outcome, trace, cur_key, hist_of, sleeps_of>>
    /\ UNCHANGED loaderFrame

\* the caller has taken what the call returned or raised; the client waits for the next call
CallReturns ==
    /\ lpc = "returned"
    /\ lpc' = "idle"
    /\ lcall' = "none"
    /\ attempt' = 0
    /\ groups' = <<>>
    /\ gi' = 0
    /\ cur_products' = <<>>
    /\ cur_table' = ""
    /\ insert_results' = EmptyMap
    /\ last_result' = NoInsertResult
    /\ connect_outcome' = "none"
    /\ trace' = <<>>
    /\ cur_key' = ""
    /\ hist_of' = EmptyMap
    /\ sleeps_of' = EmptyMap
    /\ UNCHANGED connection
    /\ UNCHANGED loaderFrame

\* the steps of a client call in progress
LoaderStep ==
    \/ ConnectSucceeds
    \/ ConnectFails
    \/ ConnectRaisesOther
    \/ ConnectSleep
    \/ InsertNotConnected
    \/ InsertSucceeds
    \/ InsertReportsFailure
    \/ InsertRaises
    \/ InsertSleep
    \/ ByCategoryInsert
    \/ ByCategoryUnmapped
    \/ ByCategoryReturns

NextLoader ==
    \/ CallConnect
    \/ Close
    \/ ConnectionDrops
    \/ CallInsertProducts
    \/ CallInsertByCategory
    \/ CallMockInsertByCategory
    \/ LoaderStep
    \/ CallReturns

InitLoader ==
    /\ wpc = "direct"
    /\ directory = <<>>
    /\ max_stores = NoneInt
    /\ categories_to_scrape = [present |-> FALSE, names |-> {}]
    /\ launched = <<>>
    /\ IdleTasks
    /\ IdleWorkflow
    /\ IdleLoader
    /\ IdlePage
    /\ IdleLocator
    /\ IdleCard
    /\ IdleFn
    /\ IdleRun
    /\ IdleWalk
    /\ IdleSession

SpecLoader == InitLoader /\ [][NextLoader]_vars

\* the event loop resumes a sleeping coroutine and a running call runs on
SpecLoaderFair == SpecLoader /\ WF_vars(LoaderStep)

(* ---------------------------------------------------------------------- *)
(* A scrape_category pass over a category page                             *)
(* ---------------------------------------------------------------------- *)
\* the subcategory arguments of a pass: two of the fixed set and one outside it
PageCategories == <<DefaultCategories[1], DefaultCategories[2], UnknownCategory>>

\* tools.py 256-278: scrape_category(page, ctx, store_name, category_url, subcategory)
InitPage ==
    /\ wpc = "direct"
    /\ directory = <<>>
    /\ max_stores = NoneInt
    /\ categories_to_scrape = [present |-> FALSE, names |-> {}]
    /\ launched = <<>>
    /\ IdleTasks
    /\ IdleWorkflow
    /\ IdleLoader
    /\ spc = "links"
    /\ \E k \in 1..3 : page_store = k /\ page_category = PageCategories[k]
    /\ name_links \in LinkLists
    /\ link_i = 1
    /\ rows = <<>>
    /\ seen = {}
    /\ page_result = <<>>
    /\ IdleLocator
    /\ IdleCard
    /\ IdleFn
    /\ IdleRun
    /\ IdleWalk
    /\ IdleSession

NextPage ==
    \/ SkipEmptyName
    \/ SkipRaising
    \/ SkipDuplicate
    \/ EmitRow
    \/ ScrapeCategoryReturns
    \/ ConstructReturns
    \/ ConstructRaises

SpecPage == InitPage /\ [][NextPage]_vars

(* ---------------------------------------------------------------------- *)
(* An extract_fl_store_links call on a dispensaries page                   *)
(* ---------------------------------------------------------------------- *)
\* tools.py 79-80: the page is loaded and its anchors are read
InitLocator ==
    /\ wpc = "direct"
    /\ directory = <<>>
    /\ max_stores = NoneInt
    /\ categories_to_scrape = [present |-> FALSE, names |-> {}]
    /\ launched = <<>>
    /\ IdleTasks
    /\ IdleWorkflow
    /\ IdleLoader
    /\ IdlePage
    /\ IdleCard
    /\ IdleFn
    /\ IdleRun
    /\ IdleWalk
    /\ IdleSession
    /\ dpc = "called"
    /\ anchors \in AnchorLists
    /\ unreadable \in 0..Len(anchors)
    /\ store_links = <<>>

NextLocator ==
    \/ ExtractReturns
    \/ ExtractRaises

SpecLocator == InitLocator /\ [][NextLocator]_vars

(* ---------------------------------------------------------------------- *)
(* The assembly of one product link inside scrape_category                 *)
(* ---------------------------------------------------------------------- *)
CardHrefs == {<<>>, <<"/product/", "og-kush">>}
CardTexts ==
    {<<"Blue", " ", "3.5G", " ", "$", "35", ".00">>,
     <<"Blue", " ", "3.5g", " ", "$", "0", ".00">>,
     <<"Blue", " ", "5g">>,
     <<"Blue", " ", "7g">>}
\* text_content() of a price element
PriceElTexts ==
    {NoneStr, SomeStr(<<"$", "25", ".99">>),
     SomeStr(<<"$", "19", ".99", " ", "on", " ", "sale">>)}
PriceElLists == UNION {[1..k -> PriceElTexts] : k \in 0..MaxPriceEls}
CardBrands == {NoneStr, SomeStr(<<"Trulieve">>)}
PdpBodies == {<<"Price", ":", " ", "$", "35", ".50", " ", "$", " ", "25">>,
              <<"No", " ", "price">>}

\* " ".join(texts)
RECURSIVE JoinTexts(_)
JoinTexts(texts) ==
    IF texts = <<>> THEN <<>>
    ELSE IF Len(texts) = 1 THEN texts[1]
    ELSE texts[1] \o <<" ">> \o JoinTexts(Tail(texts))

\* tools.py 141-144: the texts of the first n elements that hold a "$"
RECURSIVE DollarTexts(_, _, _)
DollarTexts(els, i, n) ==
    IF i > n THEN <<>>
    ELSE (IF Truthy(els[i]) /\ IndexFrom(els[i].text, "$", 1) # 0
          THEN <<els[i].text>> ELSE <<>>) \o DollarTexts(els, i + 1, n)

\* tools.py 139-145: n = min(count, 4); blob = " ".join(texts) if texts else card.inner_text()
CardBlob(els, text) ==
    IF DollarTexts(els, 1, Min(Len(els), 4)) # <<>>
    THEN JoinTexts(DollarTexts(els, 1, Min(Len(els), 4)))
    ELSE text

\* a crumb longer than 40 characters, and the number of characters of the crumb texts
LongCrumb == "Premium Indoor Cannabis Flower Collection"
StrLen(q) ==
    IF q = <<>> THEN 0
    ELSE CASE q[1] = "Home" -> 4 [] q[1] = "Flower" -> 6 [] q[1] = "Sunshine" -> 8
           [] q[1] = LongCrumb -> 41 [] OTHER -> 1
\* tools.py 226: the crumbs that are not a brand
StopCrumbs == {<<"home">>, <<"flower">>, <<"pre-rolls">>, <<"minis">>,
               <<"ground & shake">>, <<"products">>, <<"shop">>}

\* a detail page as extract_brand_from_pdp reads it: the texts of its breadcrumb links,
\* the text of its "Brand:" label, of its brand element, and what the body regex captures
PdpBrandPages ==
    {[crumbs |-> <<SomeStr(<<"Home">>), NoneStr, SomeStr(<<"Flower">>), SomeStr(<<"Sunshine">>)>>,
      label |-> NoneStr, meta |-> NoneStr, body_brand |-> NoneStr],
     [crumbs |-> <<SomeStr(<<"Home">>), SomeStr(<<LongCrumb>>)>>,
      label |-> SomeStr(<<"Brand", ":", " ", "Muse">>), meta |-> NoneStr, body_brand |-> NoneStr],
     [crumbs |-> <<>>, label |-> SomeStr(<<"Brand">>), meta |-> SomeStr(<<" ", "Roll", " ">>),
      body_brand |-> NoneStr],
     [crumbs |-> <<>>, label |-> NoneStr, meta |-> NoneStr, body_brand |-> SomeStr(<<" ">>)],
     [crumbs |-> <<>>, label |-> NoneStr, meta |-> NoneStr, body_brand |-> NoneStr]}

\* tools.py 218-251: the value extract_brand_from_pdp returns for a page it could read
BrandFromPdp(pg) ==
    LET texts == [i \in 1..Min(5, Len(pg.crumbs)) |->
                    Strip(IF Truthy(pg.crumbs[i]) THEN pg.crumbs[i].text ELSE <<>>)]
        vals == SelectSeq(texts, LAMBDA t : t # <<>>)
        good == SelectSeq(vals, LAMBDA v : Lower(v) \notin StopCrumbs /\ StrLen(v) \in 1..40)
        line == pg.label
        b == IF Truthy(line) /\ IndexFrom(line.text, ":", 1) # 0
             THEN Strip(SubSeq(line.text, IndexFrom(line.text, ":", 1) + 1, Len(line.text)))
             ELSE <<>>
        t == Strip(IF Truthy(pg.meta) THEN pg.meta.text ELSE <<>>)
    IN IF good # <<>> THEN SomeStr(good[1])
       ELSE IF b # <<>> THEN SomeStr(b)
       ELSE IF t # <<>> THEN SomeStr(t)
       ELSE IF pg.body_brand.present THEN SomeStr(Strip(pg.body_brand.text))
       ELSE NoneStr

cardFrame == <<inputVars, taskVars, wfVars, loaderVars, pageVars, locatorVars, fnVars, runVars, walkVars, sessVars>>

\* tools.py 284-291: href, url, slug, card and card_text are read
ReadCard ==
    /\ cpc = "link"
    /\ \E href \in CardHrefs, text \in CardTexts :
          /\ card_href' = href
          /\ card_text' = text
    /\ cpc' = "price"
    /\ UNCHANGED <<price_els, els_failed, card_price, price, brand, ppc, open_pages,
                   pdp_body, pdp_price, card_row, card_brand, fetches>>
    /\ UNCHANGED cardFrame

\* tools.py 280-293, 309-311, 357-358: a read of the link or of its card raises, also
\* card.inner_text() in the handler of extract_price_from_card and the read of the
\* strain element after the fallback; the link is skipped
AssemblyRaises ==
    /\ cpc \in {"link", "price", "assemble"}
    /\ cpc' = "skipped"
    /\ UNCHANGED <<card_href, card_text, price_els, els_failed, card_price, price, brand,
                   ppc, open_pages, pdp_body, pdp_price, card_row, card_brand, fetches>>
    /\ UNCHANGED cardFrame

\* tools.py 293, 137-150: extract_price_from_card reads the price elements
PriceFromCard ==
    /\ cpc = "price"
    /\ \E els \in PriceElLists :
          /\ price_els' = els
          /\ card_price' = MinPrice(CardBlob(els, card_text))
          /\ price' = MinPrice(CardBlob(els, card_text))
    /\ cpc' = "brand"
    /\ UNCHANGED <<card_href, card_text, els_failed, brand, ppc, open_pages, pdp_body,
                   pdp_price, card_row, card_brand, fetches>>
    /\ UNCHANGED cardFrame

\* tools.py 146-150: reading the price elements raises, the blob is the card's inner text
PriceFromCardExcept ==
    /\ cpc = "price"
    /\ els_failed' = TRUE
    /\ card_price' = MinPrice(card_text)
    /\ price' = MinPrice(card_text)
    /\ cpc' = "brand"
    /\ UNCHANGED <<card_href, card_text, price_els, brand, ppc, open_pages, pdp_body,
                   pdp_price, card_row, card_brand, fetches>>
    /\ UNCHANGED cardFrame

FallbackTarget_refetch(pr, br, href) ==
    IF href # <<>> /\ (~pr.present \/ ~br.present) THEN "pdp_price" ELSE "assemble"

\* tools.py 297-305: which detail-page extractor runs next, if any
FallbackTarget(pr, br, href) ==
    IF href # <<>> /\ ~pr.present THEN "pdp_price"
    ELSE IF href # <<>> /\ ~br.present THEN "pdp_brand"
    ELSE "assemble"

\* tools.py 294, 177-197, 297: extract_brand_from_card, then the fallback test
BrandFromCard ==
    /\ cpc = "brand"
    /\ \E b \in CardBrands :
          /\ brand' = b
          /\ card_brand' = b
          /\ cpc' = FallbackTarget(price, b, card_href)
          /\ ppc' = IF FallbackTarget(price, b, card_href) = "assemble" THEN "none" ELSE "start"
          /\ fetches' = IF FallbackTarget(price, b, card_href) = "assemble" THEN <<>>
                        ELSE <<FallbackTarget(price, b, card_href)>>
    /\ UNCHANGED <<card_href, card_text, price_els, els_failed, card_price, price,
                   open_pages, pdp_body, pdp_price, card_row>>
    /\ UNCHANGED cardFrame

\* tools.py 298-305: after extract_price_from_pdp the brand fetch runs if brand is None
AfterPdp(br) ==
    IF cpc = "pdp_price" /\ ~br.present
    THEN cpc' = "pdp_brand" /\ ppc' = "start" /\ fetches' = Append(fetches, "pdp_brand")
    ELSE cpc' = "assemble" /\ ppc' = "none" /\ fetches' = fetches

\* tools.py 167, 214: p = await ctx.new_page()
PdpNewPage ==
    /\ ppc = "start"
    /\ open_pages' = open_pages + 1
    /\ ppc' = "opened"
    /\ UNCHANGED <<cpc, card_href, card_text, price_els, els_failed, card_price, price,
                   brand, pdp_body, pdp_price, card_row, card_brand, fetches>>
    /\ UNCHANGED cardFrame

\* tools.py 167, 173-174, 214, 252-253: new_page raises, the extractor returns None
PdpNewPageRaises ==
    /\ ppc = "start"
    /\ AfterPdp(brand)
    /\ UNCHANGED <<card_href, card_text, price_els, els_failed, card_price, price,
                   brand, open_pages, pdp_body, pdp_price, card_row, card_brand>>
    /\ UNCHANGED cardFrame

\* tools.py 168, 215: p.goto(url, ...)
PdpGoto ==
    /\ ppc = "opened"
    /\ ppc' = "loaded"
    /\ UNCHANGED <<cpc, card_href, card_text, price_els, els_failed, card_price, price,
                   brand, open_pages, pdp_body, pdp_price, card_row, card_brand, fetches>>
    /\ UNCHANGED cardFrame

\* tools.py 168-174, 215-253: goto times out or fails, or a read of the loaded page
\* raises; the handler returns None and p.close() is not reached
PdpRaises ==
    /\ ppc \in {"opened", "loaded"}
    /\ AfterPdp(brand)
    /\ UNCHANGED <<card_href, card_text, price_els, els_failed, card_price, price,
                   brand, open_pages, pdp_body, pdp_price, card_row, card_brand>>
    /\ UNCHANGED cardFrame

\* tools.py 169-172, 299-301: the body is read, the page closed, the minimum returned;
\* the assembly takes the value if it is not None
PdpPriceReturns ==
    /\ cpc = "pdp_price"
    /\ ppc = "loaded"
    /\ \E body \in PdpBodies :
          /\ pdp_body' = SomeStr(body)
          /\ pdp_price' = MinPrice(body)
          /\ price' = IF MinPrice(body).present THEN MinPrice(body) ELSE price
    /\ open_pages' = open_pages - 1
    /\ AfterPdp(brand)
    /\ UNCHANGED <<card_href, card_text, price_els, els_failed, card_price, brand, card_row, card_brand>>
    /\ UNCHANGED cardFrame

\* tools.py 218-251, 303-305: the page is read, closed on each of the return paths, and
\* the assembly takes the value if it is truthy
PdpBrandReturns ==
    /\ cpc = "pdp_brand"
    /\ ppc = "loaded"
    /\ \E pg \in PdpBrandPages :
          brand' = IF Truthy(BrandFromPdp(pg)) THEN BrandFromPdp(pg) ELSE brand
    /\ open_pages' = open_pages - 1
    /\ cpc' = "assemble"
    /\ ppc' = "none"
    /\ UNCHANGED <<card_href, card_text, price_els, els_failed, card_price, price,
                   pdp_body, pdp_price, card_row, card_brand, fetches>>
    /\ UNCHANGED cardFrame

\* tools.py 290-291, 338-356: the size is searched in the card text and the row appended
EmitRecord ==
    /\ cpc = "assemble"
    /\ card_row' = <<Row(1, [kind |-> "ok", href |-> card_href,
                            size |-> SizeSearch(card_text, 1), price |-> price,
                            strain |-> NoneStr, thc |-> NoneInt],
                        DefaultCategories[1])>>
    /\ cpc' = "emitted"
    /\ UNCHANGED <<card_href, card_text, price_els, els_failed, card_price, price, brand,
                   ppc, open_pages, pdp_body, pdp_price, card_brand, fetches>>
    /\ UNCHANGED cardFrame

\* tools.py 278-280: the loop is at a link whose name is not empty
InitCard ==
    /\ wpc = "direct"
    /\ directory = <<>>
    /\ max_stores = NoneInt
    /\ categories_to_scrape = [present |-> FALSE, names |-> {}]
    /\ launched = <<>>
    /\ IdleTasks
    /\ IdleWorkflow
    /\ IdleLoader
    /\ IdlePage
    /\ IdleLocator
    /\ IdleFn
    /\ IdleRun
    /\ IdleWalk
    /\ IdleSession
    /\ cpc = "link"
    /\ card_href = <<>>
    /\ card_text = <<>>
    /\ price_els = <<>>
    /\ els_failed = FALSE
    /\ card_price = NoneInt
    /\ price = NoneInt
    /\ brand = NoneStr
    /\ ppc = "none"
    /\ open_pages = 0
    /\ pdp_body = NoneStr
    /\ pdp_price = NoneInt
    /\ card_row = <<>>
    /\ card_brand = NoneStr
    /\ fetches = <<>>

NextCard ==
    \/ ReadCard
    \/ AssemblyRaises
    \/ PriceFromCard
    \/ PriceFromCardExcept
    \/ BrandFromCard
    \/ PdpNewPage
    \/ PdpNewPageRaises
    \/ PdpGoto
    \/ PdpRaises
    \/ PdpPriceReturns
    \/ PdpBrandReturns
    \/ EmitRecord

SpecCard == InitCard /\ [][NextCard]_vars

(* ---------------------------------------------------------------------- *)
(* Calls of the pure extractor functions                                   *)
(* ---------------------------------------------------------------------- *)
\* the canonical size tokens, in lower and in upper case
SizeTokens == {"0.5g", "1g", "2g", "3.5g", "7g", "10g", "14g", "28g"}
\* arguments of grams_from_size: None, "", a size token in either case, a token the
\* table does not hold, a token followed by further words, and texts without a token
SizeInputs ==
    {NoneStr, SomeStr(<<>>)}
        \cup {SomeStr(<<t>>) : t \in SizeTokens \cup {"5g"}}
        \cup {SomeStr(Upper(<<t>>)) : t \in SizeTokens \cup {"5g"}}
        \cup {SomeStr(<<t, " ", w>>) : t \in {"7g", "14g", "0.5g", "28G"},
                                       w \in {"flower", "package"}}
        \cup {SomeStr(<<"no", " ", "size">>), SomeStr(<<"invalid">>)}

\* arguments of looks_like_florida
HrefInputs ==
    {NoneStr, SomeStr(<<>>),
     SomeStr(<<"/dispensaries/", "miami", "-", "fl">>),
     SomeStr(<<"/dispensaries/", "tampa", "-", "fl", "-", "store">>),
     SomeStr(<<"/dispensaries", "/", "fl", "orida">>),
     SomeStr(<<"/dispensaries", "/", "FL", "ORIDA">>),
     SomeStr(<<"/dispensaries", "/", "fl">>),
     SomeStr(<<"/dispensaries/", "jacksonville">>),
     SomeStr(<<"/dispensaries/", "los-angeles", "-", "ca">>)}
TextInputs ==
    {NoneStr, SomeStr(<<>>),
     SomeStr(<<"Miami", ",", " ", "FL">>),
     SomeStr(<<"Miami", ",", " ", "fl">>),
     SomeStr(<<"Tampa", " ", "Store", " ", "FL">>),
     SomeStr(<<"Jacksonville", " ", "-", " ", "FL", " ", "Location">>),
     SomeStr(<<"FL">>),
     SomeStr(<<"California", " ", "Store">>)}

\* keyword arguments of ProductData: every field has the annotated type; the optional
\* fields are None, in range, on a boundary, or out of range
ProductInputs ==
    [store : {1}, name : {"name"}, size_raw : {NoneStr}, url : {NoneStr},
     subcategory : {DefaultCategories[1], DefaultCategories[3], UnknownCategory,
                    "whole flower"},
     strain_type : {NoneStr, SomeStr(<<"Indica">>), SomeStr(<<"Hybrid">>),
                    SomeStr(<<"indica">>), SomeStr(<<"Unknown">>)},
     thc_pct : {NoneInt, SomeInt(-1), SomeInt(0), SomeInt(1000), SomeInt(1001)},
     grams : {NoneInt, SomeInt(-10), SomeInt(0), SomeInt(35)},
     price : {NoneInt, SomeInt(-100), SomeInt(0), SomeInt(2500)},
     price_per_g : {NoneInt, SomeInt(-1), SomeInt(714)}]

fnFrame == <<inputVars, taskVars, wfVars, loaderVars, pageVars, locatorVars, cardVars,
             runVars, walkVars, sessVars>>

\* tools.py 32-34: grams_from_size(s) returns
GramsReturns ==
    /\ fpc = "called"
    /\ fn = "grams_from_size"
    /\ ret_grams' = grams_from_size(arg_size)
    /\ fpc' = "returned"
    /\ UNCHANGED <<fn, arg_size, arg_href, arg_text, ret_florida, arg_row, ret_product>>
    /\ UNCHANGED fnFrame

\* tools.py 37-56: looks_like_florida(href, text) returns
FloridaReturns ==
    /\ fpc = "called"
    /\ fn = "looks_like_florida"
    /\ ret_florida' = looks_like_florida(arg_href, arg_text)
    /\ fpc' = "returned"
    /\ UNCHANGED <<fn, arg_size, arg_href, arg_text, ret_grams, arg_row, ret_product>>
    /\ UNCHANGED fnFrame

\* models.py 13-73: ProductData(**row) returns the validated model
ProductBuilt ==
    /\ fpc = "called"
    /\ fn = "ProductData"
    /\ ~ProductDataRaises(arg_row)
    /\ ret_product' = ProductData(arg_row)
    /\ fpc' = "returned"
    /\ UNCHANGED <<fn, arg_size, arg_href, arg_text, ret_grams, ret_florida, arg_row>>
    /\ UNCHANGED fnFrame

\* models.py 42-49: validate_subcategory raises, the constructor raises ValidationError
ProductRejected ==
    /\ fpc = "called"
    /\ fn = "ProductData"
    /\ ProductDataRaises(arg_row)
    /\ fpc' = "raised"
    /\ UNCHANGED <<fn, arg_size, arg_href, arg_text, ret_grams, ret_florida, arg_row,
                   ret_product>>
    /\ UNCHANGED fnFrame

InitExtractors ==
    /\ wpc = "direct"
    /\ directory = <<>>
    /\ max_stores = NoneInt
    /\ categories_to_scrape = [present |-> FALSE, names |-> {}]
    /\ launched = <<>>
    /\ IdleTasks
    /\ IdleWorkflow
    /\ IdleLoader
    /\ IdlePage
    /\ IdleLocator
    /\ IdleCard
    /\ IdleRun
    /\ IdleWalk
    /\ IdleSession
    /\ fpc = "called"
    /\ fn \in {"grams_from_size", "looks_like_florida", "ProductData"}
    /\ arg_size \in (IF fn = "grams_from_size" THEN SizeInputs ELSE {NoneStr})
    /\ arg_href \in (IF fn = "looks_like_florida" THEN HrefInputs ELSE {NoneStr})
    /\ arg_text \in (IF fn = "looks_like_florida" THEN TextInputs ELSE {NoneStr})
    /\ arg_row \in (IF fn = "ProductData" THEN ProductInputs ELSE {<<>>})
    /\ ret_grams = NoneInt
    /\ ret_florida = FALSE
    /\ ret_product = <<>>

NextExtractors ==
    \/ GramsReturns
    \/ FloridaReturns
    \/ ProductBuilt
    \/ ProductRejected

SpecExtractors == InitExtractors /\ [][NextExtractors]_vars

(* ---------------------------------------------------------------------- *)
(* agent.run_dispensary_scraping and dependencies.create_scraping_dependencies *)
(* ---------------------------------------------------------------------- *)
runFrame == <<inputVars, taskVars, wfVars, loaderVars, pageVars, locatorVars, cardVars,
              fnVars, walkVars, sessVars>>

\* dependencies.py 178-182, 102, 54-80: the manager is created and the browser set up
SetupPlaywright ==
    /\ rpc = "start"
    /\ browser' = "open"
    /\ rpc' = "setup_snowflake"
    /\ UNCHANGED deps_client
    /\ UNCHANGED runFrame

\* dependencies.py 105-106, 89-92: the client is created and connect() is awaited
SetupSnowflakeClient ==
    /\ rpc = "setup_snowflake"
    /\ connect_outcome = "none"
    /\ CallConnect

\* snowflake_client.py 77-87: the steps of that connect() call
SetupConnectStep ==
    /\ rpc = "setup_snowflake"
    /\ \/ ConnectSucceeds
       \/ ConnectFails
       \/ ConnectRaisesOther
       \/ ConnectSleep

\* dependencies.py 89, 107-109: the import of the client module fails, the client is None
SetupImportError ==
    /\ rpc = "setup_snowflake"
    /\ lpc = "idle"
    /\ deps_client' = "none"
    /\ rpc' = "agent"
    /\ UNCHANGED browser
    /\ UNCHANGED runFrame

\* dependencies.py 93, 111-115, 182-188: connect() returned, the dependencies are yielded
DependenciesCreated ==
    /\ rpc = "setup_snowflake"
    /\ lpc = "returned"
    /\ connect_outcome = "returned"
    /\ deps_client' = "real"
    /\ rpc' = "agent"
    /\ UNCHANGED browser
    /\ UNCHANGED runFrame

\* dependencies.py 92, 105-107, 182, 190-192, agent.py 404-407: connect() raised; the
\* handler names ImportError only, so the exception leaves create_dependencies, the
\* finally of the context manager cleans up and the exception leaves
\* run_dispensary_scraping before the body of the async with is entered
DependenciesFail ==
    /\ rpc = "setup_snowflake"
    /\ lpc = "returned"
    /\ connect_outcome \in {"raised", "raised_other"}
    /\ browser' = "closed"
    /\ rpc' = "raised"
    /\ UNCHANGED deps_client
    /\ UNCHANGED runFrame

\* agent.py 409-421, 305-330: the agent run starts run_complete_scraping_workflow
StartWorkflow ==
    /\ rpc = "agent"
    /\ wpc = "pending"
    /\ wpc' = "phase1"
    /\ pc' = [c \in CategoryNames |-> IF c \in Range(launched) THEN "locate" ELSE "idle"]
    /\ UNCHANGED <<stores, idx, all_products, successful_stores, task_result,
                   locate_outcome, log>>
    /\ UNCHANGED <<scraping_results, session, store_in_database, client, database_results,
                   outcome, finalize_calls, insert_calls>>
    /\ UNCHANGED <<inputVars, loaderVars, pageVars, locatorVars, cardVars, fnVars, runVars, walkVars, sessVars>>

\* the client the workflow finds in its dependencies is the one create_dependencies built
ClientIsDepsClient ==
    client' \in {"unread"} \cup (IF deps_client = "none" THEN {"none"} ELSE {"real", "raising"})

\* agent.py 326-378: a step of the workflow inside the agent run
WorkflowStep ==
    /\ rpc = "agent"
    /\ wpc \in {"phase1", "phase2", "finalize"}
    /\ \/ TaskStep
       \/ Gather
       \/ StoreInSnowflake
       \/ StoreInSnowflakeRaises
       \/ ClientUnavailable
       \/ SkipStorage
       \/ Finalize
       \/ WorkflowExcept
    /\ ClientIsDepsClient

\* agent.py 423, dependencies.py 190-192: result.data is returned and cleanup() runs
RunReturns ==
    /\ rpc = "agent"
    /\ wpc = "returned"
    /\ browser' = "closed"
    /\ rpc' = "returned"
    /\ UNCHANGED deps_client
    /\ UNCHANGED runFrame

\* agent.py 382-388: run_dispensary_scraping(snowflake_config, max_stores_per_category,
\* categories_to_scrape, store_in_database, headless) is called
InitRun ==
    /\ wpc = "pending"
    /\ \E n \in 1..WfMaxStores : directory = Directory(n)
    /\ max_stores \in {NoneInt, SomeInt(1)}
    /\ categories_to_scrape \in
          {[present |-> TRUE, names |-> {DefaultCategories[1]}],
           [present |-> TRUE, names |-> {DefaultCategories[1], DefaultCategories[2]}]}
    /\ launched = SelectCategories(categories_to_scrape)
    /\ IdleTasks
    /\ IdleWorkflow
    /\ IdleLoader
    /\ IdlePage
    /\ IdleLocator
    /\ IdleCard
    /\ IdleFn
    /\ IdleWalk
    /\ IdleSession
    /\ rpc = "start"
    /\ deps_client = "unset"
    /\ browser = "none"

NextRun ==
    \/ SetupPlaywright
    \/ SetupSnowflakeClient
    \/ SetupConnectStep
    \/ SetupImportError
    \/ DependenciesCreated
    \/ DependenciesFail
    \/ StartWorkflow
    \/ WorkflowStep
    \/ RunReturns

SpecRun == InitRun /\ [][NextRun]_vars

(* ---------------------------------------------------------------------- *)
(* tools.load_all inside scrape_category                                   *)
(* ---------------------------------------------------------------------- *)
walkFrame == <<inputVars, taskVars, wfVars, loaderVars, pageVars, locatorVars, cardVars,
               fnVars, runVars, sessVars>>

\* what the page shows of the Load More control in loop iteration k
Control(k) == IF shown_forever \/ k <= shown_steps THEN "visible" ELSE ending

\* tools.py 109-112: the loop body starts: mouse.wheel(0, 40000), then wait_for_timeout
ScrollAndPause ==
    /\ kpc = "loading"
    /\ step < MaxWalkSteps
    /\ step' = step + 1
    /\ wtrace' = wtrace \o <<"wheel", "wait">>
    /\ kpc' = "check"
    /\ UNCHANGED <<shown_steps, shown_forever, ending, fail_call, fail_step, first_callable,
                   loaded>>
    /\ UNCHANGED walkFrame

\* tools.py 114-115, 122: btn.count() is 0, or the first button is not visible: break
ControlGone ==
    /\ kpc = "check"
    /\ \/ /\ Control(step) = "absent"
          /\ wtrace' = Append(wtrace, "count")
       \/ /\ Control(step) = "hidden"
          /\ first_callable
          /\ wtrace' = wtrace \o <<"count", "is_visible">>
    /\ kpc' = "done"
    /\ UNCHANGED <<shown_steps, shown_forever, ending, fail_call, fail_step, first_callable,
                   step, loaded>>
    /\ UNCHANGED walkFrame

\* tools.py 115: btn.count() is not 0 and btn.first is a locator, as tools.py 192, 234,
\* 243 and 311 read it: calling it raises TypeError in the condition, outside the try;
\* the error leaves load_all and scrape_category (tools.py 273)
FirstNotCallable ==
    /\ kpc = "check"
    /\ Control(step) # "absent"
    /\ ~first_callable
    /\ wtrace' = Append(wtrace, "count")
    /\ kpc' = "raised"
    /\ UNCHANGED <<shown_steps, shown_forever, ending, fail_call, fail_step, first_callable,
                   step, loaded>>
    /\ UNCHANGED walkFrame

\* tools.py 115-119: the button is visible, the click and the pause succeed: continue
ClickAndPause ==
    /\ kpc = "check"
    /\ Control(step) = "visible"
    /\ first_callable
    /\ fail_step # step
    /\ wtrace' = wtrace \o <<"count", "is_visible", "click", "wait">>
    /\ loaded' = loaded + 1
    /\ kpc' = "loading"
    /\ UNCHANGED <<shown_steps, shown_forever, ending, fail_call, fail_step, first_callable,
                   step>>
    /\ UNCHANGED walkFrame

TryRaises_retries ==
    /\ kpc = "check"
    /\ Control(step) = "visible"
    /\ first_callable
    /\ fail_step = step
    /\ wtrace' = wtrace \o <<"count", "is_visible", "click">>
    /\ kpc' = "loading"
    /\ UNCHANGED <<shown_steps, shown_forever, ending, fail_call, fail_step, first_callable,
                   step, loaded>>
    /\ UNCHANGED walkFrame

\* tools.py 116-122: the click, or the pause after it, raises: except: pass, then break
TryRaises ==
    /\ kpc = "check"
    /\ Control(step) = "visible"
    /\ first_callable
    /\ fail_step = step
    /\ \/ /\ fail_call = "click"
          /\ wtrace' = wtrace \o <<"count", "is_visible", "click">>
          /\ loaded' = loaded
       \/ /\ fail_call = "wait"
          /\ wtrace' = wtrace \o <<"count", "is_visible", "click", "wait">>
          /\ loaded' = loaded + 1
    /\ kpc' = "done"
    /\ UNCHANGED <<shown_steps, shown_forever, ending, fail_call, fail_step, first_callable,
                   step>>
    /\ UNCHANGED walkFrame

\* tools.py 273-275: load_all returned, scrape_category enumerates the product links
Discover ==
    /\ kpc = "done"
    /\ wtrace' = Append(wtrace, "all")
    /\ kpc' = "discovered"
    /\ UNCHANGED <<shown_steps, shown_forever, ending, fail_call, fail_step, first_callable,
                   step, loaded>>
    /\ UNCHANGED walkFrame

\* tools.py 272-273: the category page is loaded and load_all(page) is entered
InitWalk ==
    /\ wpc = "direct"
    /\ directory = <<>>
    /\ max_stores = NoneInt
    /\ categories_to_scrape = [present |-> FALSE, names |-> {}]
    /\ launched = <<>>
    /\ IdleTasks
    /\ IdleWorkflow
    /\ IdleLoader
    /\ IdlePage
    /\ IdleLocator
    /\ IdleCard
    /\ IdleFn
    /\ IdleRun
    /\ IdleSession
    /\ kpc = "loading"
    /\ shown_forever \in BOOLEAN
    /\ shown_steps \in (IF shown_forever THEN {MaxWalkSteps} ELSE 0..(MaxWalkSteps - 1))
    /\ ending \in (IF shown_forever THEN {"absent"} ELSE {"absent", "hidden"})
    /\ fail_call \in {"none", "click", "wait"}
    /\ fail_step \in (IF fail_call = "none" THEN {0} ELSE 1..MaxWalkSteps)
    /\ first_callable \in BOOLEAN
    /\ step = 0
    /\ loaded = 0
    /\ wtrace = <<>>

NextWalk ==
    \/ ScrollAndPause
    \/ ControlGone
    \/ FirstNotCallable
    \/ ClickAndPause
    \/ TryRaises
    \/ Discover

SpecWalk == InitWalk /\ [][NextWalk]_vars

(* ---------------------------------------------------------------------- *)
(* Calls of ScrapingSession.add_result on one session                      *)
(* ---------------------------------------------------------------------- *)
\* the results a caller adds for a category: results with 0..MaxBatch products as
\* scrape_single_category builds them, and the result of a category that raised
SessionResults(c) ==
    {FinalResult(c, Batch(1, c, n), 1) : n \in 0..MaxBatch}
        \cup {FailureResult(c, StrOfException(m)) : m \in ScrapeErrors}

\* models.py 148-155: session.add_result(category, result)
AddResultCall ==
    /\ Len(add_calls) < MaxAdds
    /\ \E c \in CategoryNames : \E r \in SessionResults(c) :
          /\ session' = add_result(session, c, r)
          /\ add_calls' = Append(add_calls, c)
    /\ UNCHANGED <<wpc, scraping_results, store_in_database, client, database_results,
                   outcome, finalize_calls, insert_calls>>
    /\ UNCHANGED <<inputVars, taskVars, loaderVars, pageVars, locatorVars, cardVars,
                   fnVars, runVars, walkVars>>

\* models.py 138-146: a new ScrapingSession
InitSession ==
    /\ wpc = "direct"
    /\ directory = <<>>
    /\ max_stores = NoneInt
    /\ categories_to_scrape = [present |-> FALSE, names |-> {}]
    /\ launched = <<>>
    /\ IdleTasks
    /\ IdleWorkflow
    /\ IdleLoader
    /\ IdlePage
    /\ IdleLocator
    /\ IdleCard
    /\ IdleFn
    /\ IdleRun
    /\ IdleWalk
    /\ IdleSession

NextSession == AddResultCall

SpecSession == InitSession /\ [][NextSession]_vars

(* ---------------------------------------------------------------------- *)
(* Properties of the orchestrator, the coordinator and the workflow        *)
(* ---------------------------------------------------------------------- *)
RECURSIVE ConcatBatches(_, _)
\* the batches the non-raising stores of a log returned, concatenated in store order
ConcatBatches(lg, i) ==
    IF i > Len(lg) THEN <<>> ELSE lg[i].batch \o ConcatBatches(lg, i + 1)

Returned(lg) == {i \in DOMAIN lg : ~lg[i].raised}
Raised(lg) == {i \in DOMAIN lg : lg[i].raised}

\* a result that is exactly what the task's own store outcomes determine
OwnResult(c, r) ==
    /\ r.category = c
    /\ r.products = ConcatBatches(log[c], 1)
    /\ r.total_products = Len(ConcatBatches(log[c], 1))
    /\ r.store_count = Cardinality(Returned(log[c]))
    /\ r.success = (r.products # <<>>)
    /\ \A i \in DOMAIN r.products : r.products[i].subcategory = c

\* C1: in scrape_single_category a raising store is skipped and the loop goes on through
\* all remaining stores in order; store_count is the number of stores that did not raise,
\* products/total_products are the concatenation in store order of the batches of exactly
\* those stores; with one raising store among N >= 2 that each yield a product the result
\* is successful with store_count = N - 1.
C1_StoreFailureSkipped ==
    \A c \in CategoryNames :
        (pc[c] = "done" /\ locate_outcome[c] = "returned") =>
            /\ [i \in DOMAIN log[c] |-> log[c][i].store] = stores[c]
            /\ task_result[c].store_count = Cardinality(Returned(log[c]))
            /\ task_result[c].products = ConcatBatches(log[c], 1)
            /\ task_result[c].total_products = Len(ConcatBatches(log[c], 1))
            /\ (/\ Cardinality(Raised(log[c])) = 1
                /\ Len(log[c]) >= 2
                /\ \A i \in Returned(log[c]) : log[c][i].batch # <<>>)
               => (/\ task_result[c].success
                   /\ task_result[c].store_count = Len(stores[c]) - 1)

\* three stores, the middle one raises, the other two yield products
C1_Witness ==
    \E c \in CategoryNames :
        /\ pc[c] = "done"
        /\ Len(stores[c]) = 3
        /\ Len(log[c]) = 3
        /\ log[c][2].raised
        /\ log[c][1].batch # <<>>
        /\ log[c][3].batch # <<>>
        /\ task_result[c].success
        /\ task_result[c].store_count = 2

HasError(text) == \E j \in DOMAIN session.errors : session.errors[j] = text

\* the part of C3 that holds: the workflow returns a session and does not raise; a failed
\* category result held by the session, a failed insert outcome, a missing client and an
\* exception escaping the try block are each recorded in session.errors
C3_FailuresRecorded ==
    /\ outcome # "raised"
    /\ (wpc = "returned") =>
          /\ outcome = "returned"
          /\ session.end_time
          /\ \A c \in DOMAIN session.results :
                (~session.results[c].success /\ Truthy(session.results[c].error_message))
                   => HasError(<<c, ": ">> \o session.results[c].error_message.text)
          /\ \A c \in DOMAIN database_results :
                ~database_results[c].success
                   => HasError(InsertFailedMessage(c, database_results[c]))
          /\ (store_in_database /\ client = "none")
                => HasError(<<"Snowflake client not available for database storage">>)

\* the workflow returned from its try block, not from its handler
NormalReturn == wpc = "returned" /\ \A m \in WorkflowErrors : ~HasError(StrOfException(m))

\* a store-scrape failure is recorded: some error string carries its text or reports its category
StoreFailuresRecorded ==
    NormalReturn =>
        \A c \in DOMAIN session.results : \A i \in DOMAIN log[c] :
            log[c][i].raised =>
                \E j \in DOMAIN session.errors :
                    \/ Contains(session.errors[j], log[c][i].text)
                    \/ session.errors[j][1] = c

C5_StoreExceptionTextReported ==
    (wpc \in {"phase2", "finalize"}) =>
        \A c \in DOMAIN scraping_results :
            (locate_outcome[c] = "returned" /\ log[c] # <<>> /\ Returned(log[c]) = {}) =>
                /\ ~scraping_results[c].success
                /\ \E i \in DOMAIN log[c] :
                      Contains(scraping_results[c].error_message.text, log[c][i].text)

(* ---------------------------------------------------------------------- *)
(* Properties of the bulk loader                                           *)
(* ---------------------------------------------------------------------- *)
Last(q) == q[Len(q)]
CountOps(name) == Cardinality({i \in DOMAIN trace : trace[i].op = name})

InsertRunning == lpc \in {"insert", "insert_sleep"}
ByCategoryCall == lcall = "insert_products_by_category"
Mapped(i) == groups[i].category \in DOMAIN Tables

\* the insert_products calls that have returned, as [key, products, result]
ReturnedInserts ==
    {[key |-> "direct", products |-> cur_products, result |-> last_result] :
        x \in {1} \cap (IF lcall = "insert_products" /\ lpc = "returned" THEN {1} ELSE {})}
    \cup
    {[key |-> groups[i].category, products |-> groups[i].products,
      result |-> insert_results[groups[i].category]] :
        i \in {j \in DOMAIN groups : /\ ByCategoryCall
                                     /\ Mapped(j)
                                     /\ groups[j].category \in DOMAIN insert_results}}

C6_Safety ==
    /\ \A k \in DOMAIN hist_of :
          /\ Len(hist_of[k]) <= 3
          /\ \A i \in 1..(Len(hist_of[k]) - 1) : ~hist_of[k][i].ok
    /\ \A r \in ReturnedInserts :
          r.products # <<>> =>
              /\ Len(hist_of[r.key]) >= 1
              /\ r.result.success = Last(hist_of[r.key]).ok
              /\ r.result.success => r.result.rows_inserted = Len(r.products)
              /\ ~r.result.success =>
                    /\ Len(hist_of[r.key]) = 3
                    /\ r.result.rows_inserted = 0
                    /\ r.result.error_message = SomeStr(Last(hist_of[r.key]).text)

\* C6: insert_products with a non-empty list makes at most 3 attempts, stops at the first
\* successful one and returns a successful outcome with the written row count; when all 3
\* fail it returns a failed outcome with rows_inserted = 0 and the last error; a running
\* insert always comes to its return.
C6_InsertRetriesBounded == [](C6_Safety) /\ (InsertRunning ~> ~InsertRunning)

\* a direct insert returned failed after three attempts whose errors differ
C6_Witness ==
    /\ lcall = "insert_products"
    /\ lpc = "returned"
    /\ Len(hist_of["direct"]) = 3
    /\ hist_of["direct"][1].text # hist_of["direct"][3].text
    /\ ~last_result.success
    /\ last_result.error_message = SomeStr(hist_of["direct"][3].text)

\* C7: connect makes at most 3 attempts, stops at the first success and then holds the
\* connection, and raises the data-store error only when 3 attempts have failed.
C7_ConnectRetriesBounded ==
    (lcall = "connect") =>
        /\ CountOps("connect") <= 3
        /\ \A i \in 1..(Len(trace) - 1) : trace[i] # Op("connect", 1)
        /\ connect_outcome = "returned" =>
              /\ connection = "open"
              /\ Last(trace) = Op("connect", 1)
        /\ connect_outcome = "raised" =>
              /\ CountOps("connect") = 3
              /\ \A i \in DOMAIN trace : trace[i] # Op("connect", 1)
        /\ (lpc = "returned" /\ trace # <<>> /\ connect_outcome # "raised_other"
              /\ Last(trace) # Op("connect", 1)) => connect_outcome = "raised"

\* two failed attempts, then the third connects
C7_Witness ==
    /\ lcall = "connect"
    /\ connect_outcome = "returned"
    /\ CountOps("connect") = 3
    /\ connection = "open"

\* C8: in the by-category load a category without a table gets a failed outcome at once:
\* no insert attempt and no backoff sleep is ever made for it.
C8_UnmappedNotAttempted ==
    ByCategoryCall =>
        \A i \in DOMAIN groups :
            ~Mapped(i) =>
                /\ hist_of[groups[i].category] = <<>>
                /\ sleeps_of[groups[i].category] = <<>>
                /\ ~(InsertRunning /\ cur_key = groups[i].category)
                /\ gi > i => /\ groups[i].category \in DOMAIN insert_results
                             /\ insert_results[groups[i].category]
                                   = UnmappedFailure(groups[i].category)

\* a load returned with an unmapped category failed and a mapped one attempted
C8_Witness ==
    /\ ByCategoryCall
    /\ lpc = "returned"
    /\ \E i, j \in DOMAIN groups :
          /\ ~Mapped(i)
          /\ ~insert_results[groups[i].category].success
          /\ Mapped(j)
          /\ hist_of[groups[j].category] # <<>>

Exhausted(c) == Len(hist_of[c]) = 3 /\ \A i \in 1..3 : ~hist_of[c][i].ok

\* C9: the by-category load returns exactly one outcome per input category; a category
\* whose retries are exhausted gets a failed outcome, and every other category is still
\* attempted and gets the outcome of its own attempts.
C9_InsertFailureIsolated ==
    (ByCategoryCall /\ lpc = "returned") =>
        /\ DOMAIN insert_results = {groups[i].category : i \in DOMAIN groups}
        /\ \A i \in DOMAIN groups :
              LET c == groups[i].category
              IN /\ (Mapped(i) /\ groups[i].products # <<>>) =>
                        /\ Len(hist_of[c]) >= 1
                        /\ insert_results[c].success = Last(hist_of[c]).ok
                        /\ Exhausted(c) => ~insert_results[c].success
                 /\ (Mapped(i) /\ groups[i].products = <<>>) => insert_results[c].success
                 /\ ~Mapped(i) => ~insert_results[c].success

\* the first category exhausted its retries, the second was then inserted
C9_Witness ==
    /\ ByCategoryCall
    /\ lpc = "returned"
    /\ Len(groups) = 2
    /\ Mapped(1)
    /\ Mapped(2)
    /\ Exhausted(groups[1].category)
    /\ ~insert_results[groups[1].category].success
    /\ insert_results[groups[2].category].success
    /\ insert_results[groups[2].category].rows_inserted > 0

\* C10: insert_products with an empty list returns a successful outcome with
\* rows_inserted = 0 and performs no data-store operation, no attempt and no sleep, in
\* every connection state.
C10_EmptyInsertTouchesNothing ==
    /\ (lcall = "insert_products" /\ cur_products = <<>>) =>
          /\ lpc = "returned"
          /\ trace = <<>>
          /\ hist_of["direct"] = <<>>
          /\ sleeps_of["direct"] = <<>>
          /\ last_result.success
          /\ last_result.rows_inserted = 0
    /\ ByCategoryCall =>
          \A i \in DOMAIN groups :
              (Mapped(i) /\ groups[i].products = <<>>) =>
                  /\ hist_of[groups[i].category] = <<>>
                  /\ sleeps_of[groups[i].category] = <<>>
                  /\ ~(InsertRunning /\ cur_key = groups[i].category)
                  /\ gi > i => /\ insert_results[groups[i].category].success
                               /\ insert_results[groups[i].category].rows_inserted = 0

\* an empty insert returned successfully on a client that holds no connection
C10_Witness ==
    /\ lcall = "insert_products"
    /\ lpc = "returned"
    /\ cur_products = <<>>
    /\ connection # "open"
    /\ last_result.success
    /\ trace = <<>>

\* the by-category loads that have returned their mapping
LoadReturned ==
    /\ lcall \in {"insert_products_by_category", "mock_insert_products_by_category"}
    /\ lpc = "returned"

\* C11: for every group passed to the by-category load of SnowflakeClient or
\* MockSnowflakeClient, whatever the group holds (an empty list included), the category
\* field of the returned outcome is the key the group was passed under.
C11_OutcomeCategoryIsKey ==
    LoadReturned =>
        \A c \in DOMAIN insert_results : insert_results[c].category = c

\* the stores that yielded a product to a category held by the session
YieldingStores ==
    UNION {{log[c][i].store : i \in {j \in DOMAIN log[c] : log[c][j].batch # <<>>}}
           : c \in DOMAIN session.results}

RECURSIVE SumStoreCounts(_, _)
SumStoreCounts(results, cs) ==
    IF cs = {} THEN 0
    ELSE LET c == CHOOSE x \in cs : TRUE
         IN results[c].store_count + SumStoreCounts(results, cs \ {c})

\* C12: after finalize, total_stores is the number of distinct store names among the
\* products of all category results of the session; a store that appears in several
\* categories is counted once, so total_stores is not the sum of the store_count values.
C12_TotalStoresDistinct ==
    (wpc = "returned") =>
        /\ session.total_stores = Cardinality(YieldingStores)
        /\ session.total_stores <= SumStoreCounts(session.results, DOMAIN session.results)

\* two stores, each scraped by three categories: six store visits, two distinct stores
C12_Witness ==
    /\ wpc = "returned"
    /\ Cardinality(DOMAIN session.results) = 3
    /\ SumStoreCounts(session.results, DOMAIN session.results) = 6
    /\ session.total_stores = 2

SomeCategoryFailed == \E c \in DOMAIN session.results : ~session.results[c].success

\* C13 (as claimed): at the end of run_workflow session.success is false if and only if
\* some category result of the session has success = false.
C13_AsClaimed == (wpc = "returned") => (~session.success <=> SomeCategoryFailed)

\* the state part of C13 (amended)
C13_Safety ==
    /\ (wpc \in {"phase2", "finalize"} \/ NormalReturn) => (~session.success <=> SomeCategoryFailed)
    /\ (wpc = "returned" /\ SomeCategoryFailed) => ~session.success
    /\ (wpc = "returned" /\ ~NormalReturn) => ~session.success

\* C13 (amended): when run_workflow returns from its try block, session.success is false
\* if and only if some category result of the session has success = false; when it returns
\* from its exception handler session.success is false whatever the categories did; once
\* false the flag never returns to true, and the storage phase, failed inserts included,
\* leaves it as it was.
C13_SuccessFlag ==
    /\ [](C13_Safety)
    /\ [][~session.success => ~session'.success]_vars
    /\ [][(wpc = "phase2" /\ wpc' = "finalize") => session'.success = session.success]_vars

\* the first category failed, the last one succeeded, an insert failed: success is false
C13_Witness ==
    /\ NormalReturn
    /\ Len(launched) = 3
    /\ ~session.results[launched[1]].success
    /\ session.results[launched[3]].success
    /\ \E c \in DOMAIN database_results : ~database_results[c].success
    /\ ~session.success

\* the state part of C14
C14_Safety ==
    /\ (wpc = "returned") =>
          /\ finalize_calls = 1
          /\ session.end_time
          /\ session.total_stores = Cardinality(AllStores(session))
    /\ (wpc # "returned") => (finalize_calls = 0 /\ ~session.end_time)
    /\ NormalReturn => DOMAIN session.results = Range(launched)

SleepIdx == {i \in DOMAIN trace : trace[i].op = "sleep"}
AttemptIdx == {i \in DOMAIN trace : trace[i].op \in {"connect", "get_connection"}}
AttemptsBefore(i) == Cardinality({j \in AttemptIdx : j < i})

\* C37: in a connect or insert_products call every backoff sleep comes after a failed
\* attempt and before the next one, the sleep after the first failed attempt is 1 s and
\* the one after the second is 2 s (2^a for the 0-based attempt a), and there is no
\* third sleep: the call ends right after its third failed attempt
C37_BackoffBetweenAttempts ==
    /\ Cardinality(SleepIdx) <= 2
    /\ \A i \in SleepIdx :
          /\ AttemptsBefore(i) \in {1, 2}
          /\ trace[i].arg = (IF AttemptsBefore(i) = 1 THEN 1 ELSE 2)
          /\ trace[i - 1].op # "sleep"
          /\ i < Len(trace) => (i + 1) \in AttemptIdx
          /\ i = Len(trace) => lpc \in {"connect", "insert"}
    /\ (lpc = "returned" /\ Cardinality(AttemptIdx) = 3) => Last(trace).op # "sleep"

\* C37 witness: an insert_products call returned failed after three attempts with the
\* sleeps 1 s and 2 s between them
C37_Witness ==
    /\ lcall = "insert_products"
    /\ lpc = "returned"
    /\ ~last_result.success
    /\ Cardinality(AttemptIdx) = 3
    /\ [k \in 1..2 |-> trace[CHOOSE i \in SleepIdx : AttemptsBefore(i) = k].arg] = <<1, 2>>
    /\ Cardinality(SleepIdx) = 2

RECURSIVE SumTotals(_, _)
SumTotals(results, cs) ==
    IF cs = {} THEN 0
    ELSE LET c == CHOOSE x \in cs : TRUE
         IN results[c].total_products + SumTotals(results, cs \ {c})

\* C38: after any sequence of add_result calls on a session, also one that adds a result
\* for a category that already has one, session.total_products is the sum of the
\* total_products of the results the session holds
C38_TotalIsSumOfHeld ==
    session.total_products = SumTotals(session.results, DOMAIN session.results)

\* the positions in the trace at which the body of a connection_context ended by raising
RolledBack == {i \in DOMAIN trace : trace[i].op = "rollback"}

\* C39: in connection_context a commit is issued only for a body that completed: a
\* rollback follows a body that raised and no commit follows the rollback, a commit
\* directly follows a write that succeeded, and the attempt whose body raised is seen as
\* failed by the caller of the context
C39_CommitOnlyAfterSuccess ==
    /\ \A i \in RolledBack :
          /\ trace[i - 1] = Op("write_pandas", 0)
          /\ i < Len(trace) => trace[i + 1].op # "commit"
    /\ \A i \in DOMAIN trace :
          trace[i].op = "commit" =>
              trace[i - 1].op = "write_pandas" /\ trace[i - 1].arg > 0
    /\ (RolledBack # {} /\ cur_key \in DOMAIN hist_of /\ lpc \in {"insert_sleep", "returned"}) =>
          \E k \in DOMAIN hist_of[cur_key] : ~hist_of[cur_key][k].ok

(* ---------------------------------------------------------------------- *)
(* Properties of the scrape pass                                           *)
(* ---------------------------------------------------------------------- *)
\* the deduplication key of an emitted record: (store, slug, raw size, category)
KeyOfRow(r) == <<r.store, product_slug(r.url.text), r.size_raw, r.subcategory>>
\* the deduplication key of a candidate link of the running pass
KeyOfLink(i) ==
    <<page_store, product_slug(name_links[i].href), name_links[i].size, page_category>>

\* the candidates the loop has passed
Candidates == {i \in 1..(link_i - 1) : name_links[i].kind = "ok"}
\* those of them that are the first candidate with their key
FirstOfKey == {i \in Candidates : \A j \in Candidates : j < i => KeyOfLink(j) # KeyOfLink(i)}

RECURSIVE Ascending(_)
\* the members of a set of numbers in ascending order
Ascending(S) ==
    IF S = {} THEN <<>>
    ELSE LET m == CHOOSE x \in S : \A y \in S : x <= y
         IN <<m>> \o Ascending(S \ {m})

\* C15: within one scrape_category pass no two emitted records have the same key (store,
\* slug, raw size, category); of the candidates with equal keys only the first in document
\* order is emitted, whatever their prices; candidates whose keys differ in a component are
\* all emitted, in document order.
C15_NoDuplicateKeys ==
    (spc \in {"links", "done"}) =>
        /\ \A i, j \in DOMAIN rows : i # j => KeyOfRow(rows[i]) # KeyOfRow(rows[j])
        /\ rows = [k \in 1..Cardinality(FirstOfKey) |->
                      Row(page_store, name_links[Ascending(FirstOfKey)[k]], page_category)]
        /\ \A i \in Candidates : \E a \in DOMAIN rows : KeyOfRow(rows[a]) = KeyOfLink(i)

\* three candidates of one slug: the second repeats the first's key at another price and
\* URL and is dropped, the third differs in size only and is emitted
C15_Witness ==
    /\ spc = "done"
    /\ Len(name_links) = 3
    /\ \A i \in 1..3 : name_links[i].kind = "ok"
    /\ KeyOfLink(1) = KeyOfLink(2)
    /\ name_links[1].price # name_links[2].price
    /\ name_links[1].href # name_links[2].href
    /\ product_slug(name_links[3].href) = product_slug(name_links[1].href)
    /\ name_links[3].size # name_links[1].size
    /\ Len(rows) = 2
    /\ rows[1].price = name_links[1].price
    /\ rows[2].size_raw = name_links[3].size

(* ---------------------------------------------------------------------- *)
(* Properties of the two levels of concurrency, of the storage phase and   *)
(* of the inputs of the orchestrator and the coordinator                   *)
(* ---------------------------------------------------------------------- *)
\* the category tasks that have a store scrape in flight
Scraping == {c \in CategoryNames : pc[c] = "stores"}

\* C16: category tasks run concurrently, and inside one task at most one store scrape is
\* in flight: the store in flight is the one after those that have already returned or
\* raised, so the number of active store scrapes never exceeds the number of launched
\* categories.
C16_OneStorePerCategory ==
    /\ Scraping \subseteq Range(launched)
    /\ Cardinality(Scraping) <= Len(launched)
    /\ \A c \in Scraping :
          /\ idx[c] = Len(log[c]) + 1
          /\ idx[c] <= Len(stores[c])
          /\ \A i \in DOMAIN log[c] : log[c][i].store = stores[c][i]
    /\ \A c \in CategoryNames : pc[c] = "done" /\ locate_outcome[c] = "returned"
          => Len(log[c]) = Len(stores[c])

\* three category tasks each have a store scrape in flight, one of them its second store
C16_Witness ==
    /\ Cardinality(Scraping) = 3
    /\ \E c \in Scraping : idx[c] = 2 /\ Len(log[c]) = 1

\* the state part of C17
C17_Safety ==
    /\ insert_calls <= 1
    /\ insert_calls = 1 =>
          /\ store_in_database
          /\ client \in {"real", "raising"}
          /\ AllTasksDone
          /\ Scraping = {}
          /\ DOMAIN session.results = Range(launched)
    /\ (wpc \in {"finalize", "returned"} /\ ~store_in_database) =>
          (insert_calls = 0 /\ database_results = EmptyMap)
    /\ (wpc \in {"finalize", "returned"} /\ client \in {"real", "raising"}) =>
          (insert_calls = 1 <=> ProductsByCategory(launched, scraping_results) # <<>>)

\* C17: run_workflow invokes the by-category load at most once, only when every category
\* task has completed and its result is in the session; no category scrape runs at or
\* after the invocation; with store_in_database false the load is never invoked.
C17_LoaderAfterScraping ==
    /\ [](C17_Safety)
    /\ [][insert_calls = 1 => (pc' = pc /\ scraping_results' = scraping_results)]_vars

\* a run with storage that loaded once, and whose load failed for a category
C17_Witness ==
    /\ wpc = "returned"
    /\ insert_calls = 1
    /\ Len(launched) = 3
    /\ Cardinality(DOMAIN database_results) >= 2
    /\ \E c \in DOMAIN database_results : ~database_results[c].success

\* C18: when a store cap c >= 0 is given to scrape_single_category (c = 0 included), the
\* stores attempted are exactly the first min(c, N) stores of the locator's list, and so
\* store_count <= c.
C18_CapRespected ==
    \A c \in CategoryNames :
        (pc[c] = "done" /\ locate_outcome[c] = "returned" /\ max_stores.present) =>
            /\ [i \in DOMAIN log[c] |-> log[c][i].store]
                  = SubSeq(directory, 1, Min(max_stores.val, Len(directory)))
            /\ task_result[c].store_count <= max_stores.val

\* C19: the key set of the mapping scrape_all_categories returns is the requested subset
\* restricted to the three fixed categories, for every given subset (the empty one and
\* those naming unknown categories included); it is the full set only when no subset is
\* given.
C19_KeysAreRequestedSubset ==
    (wpc \in {"phase2", "finalize"}) =>
        DOMAIN scraping_results =
            IF categories_to_scrape.present
            THEN categories_to_scrape.names \cap CategoryNames
            ELSE CategoryNames

\* the stores of a task whose page was reached and whose scrape returned
Scraped(lg) == {i \in DOMAIN lg : ~lg[i].raised /\ ~lg[i].nav_failed}

\* C36: the store_count of a category result is the number of stores that were scraped:
\* a store whose scrape raised, or whose store page could not be reached, is not
\* counted; and store_count is at most the number of stores attempted
C36_StoreCountCountsScraped ==
    \A c \in CategoryNames :
        (pc[c] = "done" /\ locate_outcome[c] = "returned") =>
            /\ task_result[c].store_count = Cardinality(Scraped(log[c]))
            /\ task_result[c].store_count <= Len(log[c])
            /\ Len(log[c]) <= Len(stores[c])

(* ---------------------------------------------------------------------- *)
(* Properties of the store locator                                         *)
(* ---------------------------------------------------------------------- *)
NameOfAnchor(i) == JoinSplit(anchors[i].text)
InRegion(i) == looks_like_florida(SomeStr(anchors[i].href), SomeStr(Strip(anchors[i].text)))
\* the in-region anchors that are the first in-region anchor with their href
FirstOfHref ==
    {i \in DOMAIN anchors :
        /\ InRegion(i)
        /\ \A j \in 1..(i - 1) : InRegion(j) => anchors[j].href # anchors[i].href}
\* those of them that are the first with their display name
FirstOfName ==
    {i \in FirstOfHref : \A j \in FirstOfHref : j < i => NameOfAnchor(j) # NameOfAnchor(i)}

\* C20: extract_fl_store_links returns, in document order, the in-region anchors after
\* removing repeated hrefs and then repeated display names: no two entries have the same
\* URL or the same name, the entry kept for a repeated href or name is its first
\* occurrence, and no out-of-region anchor appears.
C20_LocatorDeduplicates ==
    (dpc = "returned") =>
        /\ store_links = [k \in 1..Cardinality(FirstOfName) |->
                            <<NameOfAnchor(Ascending(FirstOfName)[k]),
                              urljoin(anchors[Ascending(FirstOfName)[k]].href)>>]
        /\ \A a, b \in DOMAIN store_links :
              a # b => (store_links[a][1] # store_links[b][1]
                        /\ store_links[a][2] # store_links[b][2])
        /\ \A a \in DOMAIN store_links :
              \E i \in DOMAIN anchors :
                  /\ InRegion(i)
                  /\ store_links[a] = <<NameOfAnchor(i), urljoin(anchors[i].href)>>

\* a repeated href, then another URL under the same display name: one entry is returned
C20_Witness ==
    /\ dpc = "returned"
    /\ Len(anchors) = 3
    /\ \A i \in 1..3 : InRegion(i)
    /\ anchors[2].href = anchors[1].href
    /\ NameOfAnchor(2) # NameOfAnchor(1)
    /\ anchors[3].href # anchors[1].href
    /\ anchors[3].text # anchors[1].text
    /\ NameOfAnchor(3) = NameOfAnchor(1)
    /\ Len(store_links) = 1
    /\ store_links[1] = <<NameOfAnchor(1), urljoin(anchors[1].href)>>

\* the anchors other than the one that cannot be read
ReadableAnchors ==
    [k \in 1..(Len(anchors) - (IF unreadable = 0 THEN 0 ELSE 1)) |->
        IF unreadable = 0 \/ k < unreadable THEN anchors[k] ELSE anchors[k + 1]]

\* C21: the store locator fails soft: when reading the href or the text of one anchor
\* raises, that anchor alone is skipped, the call still returns, and the returned list
\* holds every other qualifying anchor.
C21_LocatorFailsSoft ==
    (dpc # "called") =>
        /\ dpc = "returned"
        /\ store_links = extract_fl_store_links(ReadableAnchors)

(* ---------------------------------------------------------------------- *)
(* Properties of product assembly                                          *)
(* ---------------------------------------------------------------------- *)
\* the rows of the pass whose record can be constructed
RECURSIVE Constructible(_, _)
Constructible(rs, k) ==
    IF k > Len(rs) THEN <<>>
    ELSE (IF ProductDataRaises(rs[k]) THEN <<>> ELSE <<ProductData(rs[k])>>)
             \o Constructible(rs, k + 1)

\* C22: product assembly is best-effort per item: an exception raised while assembling
\* or constructing the record of one product skips that product alone, the other
\* products of the pass are emitted and the pass does not fail.
C22_AssemblyBestEffort ==
    (spc \notin {"idle", "links", "done"}) =>
        /\ spc = "returned"
        /\ page_result = Constructible(rows, 1)

\* C23: every detail page opened by extract_price_from_pdp or extract_brand_from_pdp is
\* closed before the extractor returns, on every path (value found, no match, navigation
\* timeout or failure, error while reading the page): whenever no extractor is running,
\* and so after the pass, no detail page is open.
C23_DetailPagesClosed ==
    (ppc = "none") => (open_pages = 0)

\* the record emitted for the assembled link
EmittedRecord == ProductData(card_row[1])

\* C24: in every emitted record price_per_g is present if and only if price and grams
\* are both present and grams > 0, also for a price of 0.00 (which gives 0.00), and a
\* present price_per_g equals price / grams rounded to 2 decimals.
C24_PricePerGram ==
    (cpc = "emitted") =>
        /\ EmittedRecord.price_per_g.present <=>
              (/\ EmittedRecord.price.present
               /\ EmittedRecord.grams.present
               /\ EmittedRecord.grams.val > 0)
        /\ EmittedRecord.price_per_g.present =>
              EmittedRecord.price_per_g.val =
                  RoundDiv(10 * EmittedRecord.price.val, EmittedRecord.grams.val)

Fetched(x) == \E i \in DOMAIN fetches : fetches[i] = x

\* C35: a detail-page extractor is called only for a link that has a URL and whose card
\* gave no price or no brand: the price extractor only when the card gave no price, the
\* brand extractor only when the card gave no brand, each at most once; no detail page
\* is opened when the card gave both or the link has no href; and a price or brand the
\* card gave is the one the assembly ends with
C35_FallbackOnlyWhenAbsent ==
    /\ Fetched("pdp_price") => card_href # <<>> /\ ~card_price.present
    /\ Fetched("pdp_brand") => card_href # <<>> /\ ~card_brand.present
    /\ Len(fetches) <= 2 /\ (Len(fetches) = 2 => fetches = <<"pdp_price", "pdp_brand">>)
    /\ ppc # "none" => fetches # <<>> /\ cpc = fetches[Len(fetches)]
    /\ (card_href = <<>> \/ (card_price.present /\ card_brand.present)) =>
          fetches = <<>> /\ open_pages = 0
    /\ cpc \in {"pdp_price", "pdp_brand", "assemble", "emitted"} =>
          /\ card_price.present => price = card_price
          /\ card_brand.present => brand = card_brand

\* C35 witness: the card gave a price and no brand; only the brand was fetched, the
\* detail page gave one, and the record was assembled with the card's price
C35_Witness ==
    /\ cpc = "emitted"
    /\ card_price.present
    /\ ~card_brand.present
    /\ fetches = <<"pdp_brand">>
    /\ brand.present
    /\ price = card_price

(* ---------------------------------------------------------------------- *)
(* Properties of the field extractors                                      *)
(* ---------------------------------------------------------------------- *)
\* the values of the currency-formatted substrings of a text, and the least of them
CurrencyValues(text) == {PriceVals(text, 1)[k] : k \in DOMAIN PriceVals(text, 1)}
LeastPrice(text) ==
    IF CurrencyValues(text) = {} THEN NoneInt
    ELSE SomeInt(CHOOSE m \in CurrencyValues(text) : \A v \in CurrencyValues(text) : m <= v)

\* the texts, joined by spaces, of the price elements among els that carry a "$"
Carrying(els) == SelectSeq(els, LAMBDA e : Truthy(e) /\ IndexFrom(e.text, "$", 1) # 0)
PriceBearing(els) == JoinTexts([k \in DOMAIN Carrying(els) |-> Carrying(els)[k].text])

CardPriceKnown == cpc \in {"brand", "pdp_price", "pdp_brand", "assemble", "emitted"}

\* C25 as claimed: the card price is the minimum over the currency-formatted substrings
\* of every price-bearing element of the card, or of the whole card text when no element
\* carries a "$"; the detail-page price is the minimum over those of the body.
C25_AsClaimed ==
    /\ (CardPriceKnown /\ ~els_failed) =>
          card_price = LeastPrice(IF Carrying(price_els) # <<>>
                                  THEN PriceBearing(price_els) ELSE card_text)
    /\ pdp_body.present => pdp_price = LeastPrice(pdp_body.text)

\* the first four elements the price locator matched
FirstFour == SubSeq(price_els, 1, Min(4, Len(price_els)))

\* C25: price extraction returns the minimum over the currency-formatted substrings of
\* the text it parses, and absent when there is none. For a detail page the text is the
\* body; for a card it is the joined texts of those of the first four price elements
\* that carry a "$", and the whole card text when none of the four does or when reading
\* them raises.
C25_MinimumPrice ==
    /\ CardPriceKnown =>
          card_price = LeastPrice(IF ~els_failed /\ Carrying(FirstFour) # <<>>
                                  THEN PriceBearing(FirstFour) ELSE card_text)
    /\ pdp_body.present => pdp_price = LeastPrice(pdp_body.text)

\* five price elements, the lowest price in the fifth: the minimum of the first four is
\* returned
C25_Witness ==
    /\ CardPriceKnown
    /\ ~els_failed
    /\ Len(price_els) = 5
    /\ \A k \in 1..4 : price_els[k] = SomeStr(<<"$", "25", ".99">>)
    /\ LeastPrice(price_els[5].text) = SomeInt(1999)
    /\ card_price = SomeInt(2599)

GramsReturned == fpc = "returned" /\ fn = "grams_from_size"

\* a size token in lower or upper case, as the whole argument
IsSizeToken(o) ==
    /\ o.present
    /\ \E t \in SizeTokens : o.text = <<t>> \/ o.text = Upper(<<t>>)

C27_GramsOfTokenWithWords ==
    (/\ GramsReturned
     /\ arg_size.present
     /\ Len(arg_size.text) > 1
     /\ IsSizeToken(SomeStr(<<arg_size.text[1]>>))
     /\ arg_size.text[2] = " ")
        => ret_grams = SomeInt(SIZE_MAP[Lower(<<arg_size.text[1]>>)])

FloridaReturned == fpc = "returned" /\ fn = "looks_like_florida"

\* the text carries a region marker, whatever its letter case
TextMarked(o) ==
    /\ o.present
    /\ \/ IsInfix(<<",", " ", "fl">>, Lower(o.text))
       \/ EndsWith(Lower(o.text), <<" ", "fl">>)
       \/ IsInfix(<<" ", "fl", " ">>, Lower(o.text))
\* the lower-cased href carries a region marker
HrefMarked(o) ==
    /\ o.present
    /\ \/ IsInfix(<<"/", "fl", "orida">>, Lower(o.text))
       \/ IsInfix(<<"-", "fl", "-">>, Lower(o.text))
       \/ EndsWith(Lower(o.text), <<"/", "fl">>)
       \/ EndsWith(Lower(o.text), <<"-", "fl">>)

C29_FalseWhenOneInputMissing ==
    (FloridaReturned /\ (~Truthy(arg_href) \/ ~Truthy(arg_text))) => ~ret_florida

\* C31: constructing a ProductData raises exactly when the subcategory is outside the
\* three category names; otherwise it returns, a strain type outside Indica, Sativa,
\* Hybrid, a THC percentage outside 0..100, grams <= 0 and a negative price or price per
\* gram are stored as None, and every other value is stored as given
C31_OnlyCategoryRejects ==
    (fn = "ProductData" /\ fpc # "called") =>
        /\ (fpc = "raised") <=> (arg_row.subcategory \notin
               {"Whole Flower", "Pre-Rolls", "Ground & Shake"})
        /\ (fpc = "returned") =>
              /\ ret_product.strain_type.present =
                     (arg_row.strain_type \in {SomeStr(<<"Indica">>), SomeStr(<<"Sativa">>),
                                               SomeStr(<<"Hybrid">>)})
              /\ ret_product.thc_pct.present =
                     (arg_row.thc_pct.present /\ arg_row.thc_pct.val \in 0..1000)
              /\ ret_product.grams.present =
                     (arg_row.grams.present /\ arg_row.grams.val > 0)
              /\ ret_product.price.present =
                     (arg_row.price.present /\ arg_row.price.val >= 0)
              /\ ret_product.price_per_g.present =
                     (arg_row.price_per_g.present /\ arg_row.price_per_g.val >= 0)
              /\ \A f \in {"strain_type", "thc_pct", "grams", "price", "price_per_g"} :
                    ret_product[f].present => ret_product[f] = arg_row[f]
              /\ \A f \in {"store", "name", "subcategory", "size_raw", "url"} :
                    ret_product[f] = arg_row[f]

\* C31 witness: a row with a valid category whose four soft fields are all out of range
\* was constructed
C31_Witness ==
    /\ fn = "ProductData"
    /\ fpc = "returned"
    /\ arg_row.strain_type = SomeStr(<<"Unknown">>)
    /\ arg_row.thc_pct = SomeInt(1001)
    /\ arg_row.grams = SomeInt(0)
    /\ arg_row.price = SomeInt(-100)
    /\ ~ret_product.strain_type.present
    /\ ~ret_product.thc_pct.present

(* ---------------------------------------------------------------------- *)
(* Properties of the category page walker                                  *)
(* ---------------------------------------------------------------------- *)
CountW(op) == Cardinality({i \in DOMAIN wtrace : wtrace[i] = op})
\* the loop iterations so far in which the control was present and visible
FoundSteps == {k \in 1..step : Control(k) = "visible"}
WalkDone == kpc \in {"done", "discovered"}

\* C32: in a walk in which no click and no pause raises, every iteration scrolls, pauses
\* and then checks the control; the control is clicked once in every iteration in which
\* it is present and visible and the walker stays in LOADING; the walker is DONE at the
\* first iteration in which the control is absent or not visible, with one scroll more
\* than clicks; the walk never ends any other way
C32_WalkerStateMachine ==
    (fail_call = "none" /\ kpc # "check") =>
        /\ kpc # "raised"
        /\ CountW("click") = Cardinality(FoundSteps)
        /\ (kpc = "loading") <=> (step = 0 \/ Control(step) = "visible")
        /\ WalkDone =>
              /\ Control(step) # "visible"
              /\ \A k \in 1..(step - 1) : Control(k) = "visible"
              /\ CountW("wheel") = CountW("click") + 1
        /\ \A i \in DOMAIN wtrace :
              wtrace[i] = "wheel" =>
                  i + 2 <= Len(wtrace) /\ wtrace[i + 1] = "wait" /\ wtrace[i + 2] = "count"

\* the click of iteration k, or the pause that follows it in the same try, raised
ClickFailed(k) == fail_call # "none" /\ fail_step = k /\ first_callable /\ Control(k) = "visible"
\* the iterations whose check of the control is over
CheckedSteps == {k \in 1..step : k < step \/ kpc # "check"}
\* the operations of load_all itself, without the enumeration that follows it
WalkOps == IF kpc = "discovered" THEN SubSeq(wtrace, 1, Len(wtrace) - 1) ELSE wtrace

\* C33: when the click on the control raises, load_all ends normally: the error does not
\* leave it, the failing call is the last page operation of the walk (no further scroll,
\* click or pause), and scrape_category goes on to enumerate the product links of the
\* content loaded by the clicks that succeeded
C33_ClickFailureSwallowed ==
    ClickFailed(step) /\ kpc # "check" =>
        /\ WalkDone
        /\ WalkOps[Len(WalkOps)] = fail_call
        /\ CountW("wheel") = step /\ CountW("click") = step
        /\ loaded = (IF fail_call = "click" THEN step - 1 ELSE step)
        /\ kpc = "done" => ENABLED Discover
        /\ kpc = "discovered" => wtrace[Len(wtrace)] = "all"

\* C33 witness: the third click raised after two clicks that expanded the page, and the
\* product links were enumerated
C33_Witness ==
    /\ kpc = "discovered"
    /\ fail_call = "click"
    /\ ClickFailed(step)
    /\ step = 3
    /\ loaded = 2

\* C34: load_all is DONE exactly when in some iteration the control was absent or not
\* visible or its click failed, and while the control stays visible and clickable the
\* walker stays in LOADING, whatever the number of iterations
C34_NoIterationCap ==
    /\ WalkDone <=> \E k \in CheckedSteps : Control(k) # "visible" \/ ClickFailed(k)
    /\ (shown_forever /\ fail_call = "none") => kpc \in {"loading", "check"}

(* ---------------------------------------------------------------------- *)
(* Properties of a whole run                                               *)
(* ---------------------------------------------------------------------- *)
RunEnded == rpc \in {"returned", "raised"}

\* C30: when establishing the data-store connection fails after exhausting its retries,
\* only the load phase is lost: the scrape phase of the run is still executed and, unless
\* the workflow itself fails, the result of every scraped category is produced.
C30_ScrapeSurvivesConnectFailure ==
    (RunEnded /\ connect_outcome = "raised") =>
        /\ wpc = "returned"
        /\ NormalReturn => \A c \in Range(launched) : c \in DOMAIN session.results

====
